---- MODULE Spec2Model ----
(***************************************************************************)
(* A model of flexx's reactive component runtime: the property mutation    *)
(* pipeline (flexx/event/_component.py, _property.py), the event loop      *)
(* (flexx/event/_loop.py) and the local/proxy mirroring protocol           *)
(* (flexx/app/_component2.py).                                             *)
(***************************************************************************)
EXTENDS Integers, Sequences, FiniteSets, TLC

VARIABLES
    kind,                 \* component -> "plain" | "local" | "proxy" (its class)
    value,                \* component -> property -> stored value (_<name>_value)
    handlers,             \* component -> event type -> <<label, reaction>> list (__handlers)
    capturing,            \* component -> __pending_events is not None
    captured,             \* component -> event type -> events (__pending_events)
    disposed,             \* component -> _disposed
    r_disposed,           \* reaction -> the reaction was disposed
    connections,          \* implicit reaction -> set of <<component, property>>
    pending_calls,        \* loop -> Loop._pending_calls
    pending_actions,      \* loop -> Loop._pending_actions
    pending_reactions,    \* loop -> Loop._pending_reactions
    pending_reaction_ids, \* loop -> Loop._pending_reaction_ids
    prop_access,          \* loop -> Loop._prop_access, as a set of <<component, property>>
    scheduled_update,     \* loop -> Loop._scheduled_update
    last_thread_id,       \* loop -> Loop._last_thread_id (0 before the first iter)
    calllaterfunc,        \* loop -> Loop._calllaterfunc: "none" (the lambda) or "host"
    host_calls,           \* loop -> the calls of iter the host was given and has not begun
    threads,              \* native thread -> its call of Loop.iter: position and locals
    pc,                   \* loop -> position of Loop.iter
    cur_calls,            \* loop -> iter's local pending_calls
    cur_actions,          \* loop -> iter's local pending_actions
    cur_reactions,        \* loop -> iter's local pending_reactions
    cur_reaction_ids,     \* loop -> iter's local pending_reaction_ids
    has_proxy,            \* local component -> _has_proxy
    event_types_at_proxy, \* local component -> __event_types_at_proxy
    status,               \* component -> its session's status (> 0 is active)
    registered,           \* component -> registered with its session
    chan,                 \* component -> commands its session sent, not yet received
    emitted,              \* component -> events created by emit() since the iteration began
    invoked,              \* loop -> reaction invocations of the current iteration
    logged,               \* loop -> exceptions caught by the current iteration
    js,                   \* component -> it lives on the JavaScript side (this_is_js())
    err,                  \* the exception the last direct call raised ("" if none)
    ret,                  \* what the last call of the serializer returned
    trace,                \* the calls made by user code since construction
    budget                \* the number of calls a behaviour may make

vars == <<kind, value, handlers, capturing, captured, disposed, r_disposed,
          connections, pending_calls, pending_actions, pending_reactions,
          pending_reaction_ids, prop_access, scheduled_update, last_thread_id,
          calllaterfunc, host_calls, threads, pc, cur_calls,
          cur_actions, cur_reactions, cur_reaction_ids, has_proxy,
          event_types_at_proxy, status, registered, chan, emitted, invoked,
          logged, js, err, ret, trace, budget>>

(***************************************************************************)
(* Bounds of the model.                                                    *)
(***************************************************************************)
\* the number of calls made from outside the loop in one behaviour
MaxOps == 4

\* the number of calls in a behaviour of a local component and its proxy
MaxAppOps == 3
MaxSyncOps == 5
MaxDisposeOps == 3
MaxCodecOps == 3
MaxListOps == 7
MaxNewOps == 4
MaxValidateOps == 3
MaxLoopOps == 6
MaxHandlerOps == 4
MaxReadOps == 5
MaxThreadOps == 4
MaxHostOps == 4
MaxProxyOps == 3
MaxTypeOps == 3
MaxLocalOps == 3
MaxMutateOps == 4

(***************************************************************************)
(* Values. A Python value is a record of its type and its content; a float *)
(* is held in tenths (15 is 1.5).                                          *)
(***************************************************************************)
IntV(n) == [t |-> "int", v |-> n]

FloatV(n) == [t |-> "float", v |-> n]

StrV(s) == [t |-> "str", v |-> s]

NoneV == [t |-> "none", v |-> 0]

ListV(s) == [t |-> "list", v |-> s]

TupleV(s) == [t |-> "tuple", v |-> s]

\* int(str): the numeric strings of the model
StrInt == [x \in {"0", "1", "2"} |-> CASE x = "0" -> 0 [] x = "1" -> 1 [] x = "2" -> 2]

Ok(v) == [ok |-> TRUE, val |-> v, exc |-> ""]

Fail(e) == [ok |-> FALSE, val |-> NoneV, exc |-> e]

AnyProp_validate(v) == Ok(v)

\* a bool, held as 0 or 1
BoolV(b) == [t |-> "bool", v |-> b]

\* float('nan'): the float that is not equal to itself
NaNV == [t |-> "nan", v |-> 0]

\* a Component instance as a value
CompV == [t |-> "component", v |-> 0]

IntProp_validate(v) ==
    CASE v.t = "int" -> Ok(v)
      [] v.t = "bool" -> Ok(IntV(v.v))
      [] v.t = "nan" -> Fail("ValueError")
      [] v.t = "float" -> Ok(IntV(v.v \div 10))
      [] v.t = "str" -> IF v.v \in DOMAIN StrInt THEN Ok(IntV(StrInt[v.v]))
                        ELSE Fail("ValueError")
      [] OTHER -> Fail("TypeError")

ListProp_validate(v) ==
    IF v.t \in {"tuple", "list"} THEN Ok(ListV(v.v)) ELSE Fail("TypeError")

\* the property classes of _property.py
PropTypes == {"AnyProp", "BoolProp", "IntProp", "FloatProp", "StringProp",
              "TupleProp", "ListProp", "ComponentProp"}

\* validators of which FloatProp scales a float as it scales an int
Property_validate_scaled(cls, v) ==
    LET \* bool(value)
        Truthy ==
            CASE v.t \in {"int", "float", "bool"} -> IF v.v = 0 THEN 0 ELSE 1
              [] v.t = "str" -> IF v.v = "" THEN 0 ELSE 1
              [] v.t \in {"list", "tuple"} -> IF v.v = <<>> THEN 0 ELSE 1
              [] v.t = "none" -> 0
              [] OTHER -> 1
        \* float(value)
        ToFloat ==
            CASE v.t \in {"int", "bool"} -> Ok(FloatV(v.v * 10))
              [] v.t \in {"float", "nan"} -> Ok(v)
              [] v.t = "str" -> IF v.v = "nan" THEN Ok(NaNV)
                                ELSE IF v.v \in DOMAIN StrInt
                                     THEN Ok(FloatV(StrInt[v.v] * 10))
                                ELSE Fail("ValueError")
              [] OTHER -> Fail("TypeError")
    IN  CASE cls = "AnyProp" -> AnyProp_validate(v)
          [] cls = "BoolProp" -> Ok(BoolV(Truthy))
          [] cls = "IntProp" -> IntProp_validate(v)
          [] cls = "FloatProp" -> IF v.t = "float" THEN Ok(FloatV(v.v * 10)) ELSE ToFloat
          [] cls = "StringProp" -> IF v.t = "str" THEN Ok(v) ELSE Fail("TypeError")
          [] cls = "TupleProp" -> IF v.t \in {"tuple", "list"} THEN Ok(TupleV(v.v))
                                  ELSE Fail("TypeError")
          [] cls = "ListProp" -> ListProp_validate(v)
          [] cls = "ComponentProp" -> IF v.t \in {"none", "component"} THEN Ok(v)
                                      ELSE Fail("TypeError")

\* cls._validate(v) of a property class
Property_validate(cls, v) ==
    LET \* bool(value)
        Truthy ==
            CASE v.t \in {"int", "float", "bool"} -> IF v.v = 0 THEN 0 ELSE 1
              [] v.t = "str" -> IF v.v = "" THEN 0 ELSE 1
              [] v.t \in {"list", "tuple"} -> IF v.v = <<>> THEN 0 ELSE 1
              [] v.t = "none" -> 0
              [] OTHER -> 1
        \* float(value)
        ToFloat ==
            CASE v.t \in {"int", "bool"} -> Ok(FloatV(v.v * 10))
              [] v.t \in {"float", "nan"} -> Ok(v)
              [] v.t = "str" -> IF v.v = "nan" THEN Ok(NaNV)
                                ELSE IF v.v \in DOMAIN StrInt
                                     THEN Ok(FloatV(StrInt[v.v] * 10))
                                ELSE Fail("ValueError")
              [] OTHER -> Fail("TypeError")
    IN  CASE cls = "AnyProp" -> AnyProp_validate(v)
          [] cls = "BoolProp" -> Ok(BoolV(Truthy))
          [] cls = "IntProp" -> IntProp_validate(v)
          [] cls = "FloatProp" -> ToFloat
          [] cls = "StringProp" -> IF v.t = "str" THEN Ok(v) ELSE Fail("TypeError")
          [] cls = "TupleProp" -> IF v.t \in {"tuple", "list"} THEN Ok(TupleV(v.v))
                                  ELSE Fail("TypeError")
          [] cls = "ListProp" -> ListProp_validate(v)
          [] cls = "ComponentProp" -> IF v.t \in {"none", "component"} THEN Ok(v)
                                      ELSE Fail("TypeError")

(***************************************************************************)
(* The component class of the model: an IntProp count (default 0), a       *)
(* ListProp eggs (default []) and an AnyProp foo (default 6), all          *)
(* settable, a ListProp eggs3 (default [3, 4]) that is not settable, an    *)
(* action increment, an action mutate_eggs that calls _mutate_eggs, and a  *)
(* declared implicit reaction.                                             *)
(***************************************************************************)
Props == {"count", "eggs", "eggs3", "foo"}

\* the properties declared with settable=True
Settable == {"count", "eggs", "foo"}

\* the event types a component knows at construction: its emitter bar and its
\* properties, in the order of the __handlers dict
HandlerKeys == <<"bar", "count", "eggs", "eggs3", "foo">>

EventTypes == {"bar", "count", "eggs", "eggs3", "foo"}

\* __properties__, sorted by name
PropList == <<"count", "eggs", "eggs3", "foo">>

PropDefault(p) ==
    CASE p = "count" -> IntV(0)
      [] p = "eggs" -> ListV(<<>>)
      [] p = "eggs3" -> ListV(<<3, 4>>)
      [] OTHER -> IntV(6)

Validate(p, v) ==
    CASE p = "count" -> IntProp_validate(v)
      [] p \in {"eggs", "eggs3"} -> ListProp_validate(v)
      [] OTHER -> AnyProp_validate(v)

\* r1 and r2 are explicit reactions made by Component.reaction(); r3 is the
\* implicit reaction the class declares
Reactions == {"r1", "r2", "r3"}

is_explicit(r) == r # "r3"

\* __reactions__ of the class
DeclaredReactions == {"r3"}

\* Reaction._name, the default label
RName(r) == IF r = "r3" THEN "t" ELSE r

Labels == {"a", "b"}

\* the characters of the strings that are compared
Code == [a |-> <<97>>, b |-> <<98>>, t |-> <<116>>,
         r1 |-> <<114, 49>>, r2 |-> <<114, 50>>, r3 |-> <<114, 51>>]
            @@ ("a+" :> <<97, 43>>)

RECURSIVE StrLess(_, _)
StrLess(s, t) ==
    IF t = <<>> THEN FALSE
    ELSE IF s = <<>> THEN TRUE
    ELSE IF Head(s) # Head(t) THEN Head(s) < Head(t)
    ELSE StrLess(Tail(s), Tail(t))

\* label + '-' + reaction._id
SortKey(label, r) == Code[label] \o <<45>> \o Code[r]

(***************************************************************************)
(* Events.                                                                 *)
(***************************************************************************)
NoEvent == [type |-> "None", source |-> "None", mutation |-> "", old_value |-> NoneV,
            new_value |-> NoneV, objects |-> NoneV, index |-> -1]

SetEvent(c, p, old, new) ==
    [type |-> p, source |-> c, mutation |-> "set", old_value |-> old,
     new_value |-> new, objects |-> NoneV, index |-> -1]

\* Dict(source=self, type='', label='')
InitEvent(c) == [NoEvent EXCEPT !.type = "", !.source = c]

SameSourceType(e1, e2) == e1.source = e2.source /\ e1.type = e2.type

(***************************************************************************)
(* Native threads, by threading.get_ident(). The calls that user code      *)
(* makes come from MainThread unless an action says otherwise.             *)
(***************************************************************************)
Threads == {1, 2}

MainThread == 1

\* a thread that is not inside Loop.iter; ran is what its calls of iter ran
\* and exc the exception its last call of iter raised
NoIter == [pc |-> "idle", calls |-> <<>>, actions |-> <<>>, reactions |-> <<>>,
           ran |-> <<>>, exc |-> ""]

(***************************************************************************)
(* The state as one record, so that a method is a function of states.      *)
(* exc is the exception in flight ("" if none).                            *)
(***************************************************************************)
St ==
    [kind |-> kind, value |-> value, handlers |-> handlers, capturing |-> capturing,
     captured |-> captured, disposed |-> disposed, r_disposed |-> r_disposed,
     connections |-> connections, pending_calls |-> pending_calls,
     pending_actions |-> pending_actions, pending_reactions |-> pending_reactions,
     pending_reaction_ids |-> pending_reaction_ids, prop_access |-> prop_access,
     scheduled_update |-> scheduled_update, last_thread_id |-> last_thread_id,
     calllaterfunc |-> calllaterfunc, host_calls |-> host_calls, threads |-> threads,
     pc |-> pc, cur_calls |-> cur_calls,
     cur_actions |-> cur_actions, cur_reactions |-> cur_reactions,
     cur_reaction_ids |-> cur_reaction_ids, has_proxy |-> has_proxy,
     event_types_at_proxy |-> event_types_at_proxy, status |-> status,
     registered |-> registered, chan |-> chan, emitted |-> emitted,
     invoked |-> invoked, logged |-> logged, js |-> js, ret |-> ret, exc |-> ""]

Commit(st) ==
    /\ kind' = st.kind
    /\ value' = st.value
    /\ handlers' = st.handlers
    /\ capturing' = st.capturing
    /\ captured' = st.captured
    /\ disposed' = st.disposed
    /\ r_disposed' = st.r_disposed
    /\ connections' = st.connections
    /\ pending_calls' = st.pending_calls
    /\ pending_actions' = st.pending_actions
    /\ pending_reactions' = st.pending_reactions
    /\ pending_reaction_ids' = st.pending_reaction_ids
    /\ prop_access' = st.prop_access
    /\ scheduled_update' = st.scheduled_update
    /\ last_thread_id' = st.last_thread_id
    /\ calllaterfunc' = st.calllaterfunc
    /\ host_calls' = st.host_calls
    /\ threads' = st.threads
    /\ pc' = st.pc
    /\ cur_calls' = st.cur_calls
    /\ cur_actions' = st.cur_actions
    /\ cur_reactions' = st.cur_reactions
    /\ cur_reaction_ids' = st.cur_reaction_ids
    /\ has_proxy' = st.has_proxy
    /\ event_types_at_proxy' = st.event_types_at_proxy
    /\ status' = st.status
    /\ registered' = st.registered
    /\ chan' = st.chan
    /\ emitted' = st.emitted
    /\ invoked' = st.invoked
    /\ logged' = st.logged
    /\ js' = st.js
    /\ err' = st.exc
    /\ ret' = st.ret
    /\ budget' = budget

Raise(st, e) == [st EXCEPT !.exc = e]

\* the loop of a component's process
LoopOf(c) == c

(***************************************************************************)
(* The loop (flexx/event/_loop.py).                                        *)
(***************************************************************************)
\* Loop.call_later; the host's call-later function is given Loop.iter
call_later(st, s, func) ==
    [st EXCEPT !.pending_calls[s] = Append(@, func),
               !.scheduled_update[s] = TRUE,
               !.host_calls[s] = IF ~st.scheduled_update[s] /\ st.calllaterfunc[s] = "host"
                                 THEN @ + 1 ELSE @]

\* a queue that keeps the last invocation only
add_action_invokation_overwrite(st, s, ob, func, args) ==
    [st EXCEPT !.pending_actions[s] = <<[ob |-> ob, func |-> func, args |-> args]>>]

\* a setter that also stores the value at once
add_action_invokation_sync(st, s, ob, func, args) ==
    [st EXCEPT !.pending_actions[s] = Append(@, [ob |-> ob, func |-> func, args |-> args]),
               !.value[ob] = IF func = "set_count" THEN [@ EXCEPT !["count"] = args] ELSE @]

\* a queue that takes a new invocation at its front
add_action_invokation_front(st, s, ob, func, args) ==
    [st EXCEPT !.pending_actions[s] = <<[ob |-> ob, func |-> func, args |-> args]>> \o @]

\* a queue that iter does not swap out: an action queued while the
\* iteration runs joins the actions that the iteration is running
add_action_invokation_running(st, s, ob, func, args) ==
    IF st.pc[s] = "idle"
    THEN [st EXCEPT !.pending_actions[s] = Append(@, [ob |-> ob, func |-> func, args |-> args])]
    ELSE [st EXCEPT !.cur_actions[s] = Append(@, [ob |-> ob, func |-> func, args |-> args])]

add_action_invokation(st, s, ob, func, args) ==
    [st EXCEPT !.pending_actions[s] = Append(@, [ob |-> ob, func |-> func, args |-> args])]

\* whether the loop is running an action: true in the action phase of iter
is_processing_actions(st, s) == st.pc[s] = "actions"

\* no consolidation: every event gets an entry of its own
Consolidate_never(q, r, ev, i) == [res |-> "append", q |-> q]

\* The walk back over the queue that looks for an entry of the same explicit
\* reaction. An entry is (reaction, representing event, events).
RECURSIVE Consolidate(_, _, _, _)
Consolidate(q, r, ev, i) ==
    IF i = 0 THEN [res |-> "append", q |-> q]
    ELSE IF q[i].reaction = r
    THEN LET q1 == [q EXCEPT ![i].events = Append(@, ev)]
         IN  IF q[i].rep = NoEvent
             THEN [res |-> "AttributeError", q |-> q1]   \* None.source
             ELSE IF ~SameSourceType(q[i].rep, ev)
             THEN [res |-> "TypeError", q |-> q1]        \* item assignment to a tuple
             ELSE [res |-> "merged", q |-> q1]
    ELSE IF ~(q[i].rep # NoEvent /\ SameSourceType(q[i].rep, ev))
    THEN [res |-> "append", q |-> q]
    ELSE Consolidate(q, r, ev, i - 1)

\* isinstance(ev.get('new_value', None), (tuple, list))
is_container(ev) == ev.new_value.t \in {"tuple", "list"}

NewEntry(st, s, r, ev, events) ==
    [st EXCEPT !.pending_reactions[s] =
                   Append(@, [reaction |-> r, rep |-> ev, events |-> events]),
               !.pending_reaction_ids[s] =
                   [x \in DOMAIN @ \cup {r} |-> IF x = r THEN is_container(ev) ELSE @[x]]]

add_reaction_event(st, s, r, ev) ==
    IF is_explicit(r)
    THEN LET c == Consolidate(st.pending_reactions[s], r, ev, Len(st.pending_reactions[s]))
         IN  CASE c.res = "append" -> NewEntry(st, s, r, ev, <<ev>>)
               [] c.res = "merged" -> [st EXCEPT !.pending_reactions[s] = c.q]
               [] OTHER -> Raise([st EXCEPT !.pending_reactions[s] = c.q], c.res)
    ELSE IF r \in DOMAIN st.pending_reaction_ids[s]
    THEN [st EXCEPT !.pending_reaction_ids[s][r] = @ \/ is_container(ev)]
    ELSE NewEntry(st, s, r, ev, <<>>)

\* a register_prop_access that counts the reads of every thread
register_prop_access_any_thread(st, s, c, p, tid) ==
    [st EXCEPT !.prop_access[s] = @ \cup {<<c, p>>}]

\* Loop.register_prop_access, called by thread tid
register_prop_access(st, s, c, p, tid) ==
    IF tid = st.last_thread_id[s]
    THEN [st EXCEPT !.prop_access[s] = @ \cup {<<c, p>>}]
    ELSE st

(***************************************************************************)
(* Sessions: send_command appends to the channel to the other side.        *)
(***************************************************************************)
Invoke(c, name, args) == [cmd |-> "INVOKE", id |-> c, name |-> name, args |-> args]

send_command(st, c, command) == [st EXCEPT !.chan[c] = Append(@, command)]

(***************************************************************************)
(* Component (flexx/event/_component.py).                                  *)
(***************************************************************************)
RECURSIVE Dispatch(_, _, _, _)
\* emit's loop over the reactions of the event's type, from the i-th on
Dispatch(st, c, ev, i) ==
    IF i > Len(st.handlers[c][ev.type]) THEN st
    ELSE LET st1 == add_reaction_event(st, LoopOf(c), st.handlers[c][ev.type][i][2], ev)
         IN  IF st1.exc # "" THEN st1 ELSE Dispatch(st1, c, ev, i + 1)

Component_emit(st, c, type, info) ==
    LET ev  == [info EXCEPT !.type = type, !.source = c]
        st1 == [st EXCEPT !.emitted[c] = Append(@, ev),
                          !.captured[c][type] = IF st.capturing[c] THEN Append(@, ev) ELSE @]
    IN  Dispatch(st1, c, ev, 1)

\* __proxy_properties__: every property of the class is a proxy property
ProxyProperties == Props

\* an emit that forwards every event while there is a proxy
LocalComponent_emit_all(st, c, type, info) ==
    LET st1 == Component_emit(st, c, type, info)
        ev  == [info EXCEPT !.type = type, !.source = c]
    IN  IF st1.exc # "" THEN st1
        ELSE IF st1.has_proxy[c] /\ st1.status[c] > 0
        THEN send_command(st1, c, Invoke(c, "_emit_at_proxy", ev))
        ELSE st1

LocalComponent_emit(st, c, type, info) ==
    LET st1 == Component_emit(st, c, type, info)
        ev  == [info EXCEPT !.type = type, !.source = c]
    IN  IF st1.exc # "" THEN st1
        ELSE IF /\ st1.has_proxy[c] /\ st1.status[c] > 0
                /\ \/ type \in ProxyProperties
                   \/ \E i \in 1..Len(st1.event_types_at_proxy[c]) :
                          st1.event_types_at_proxy[c][i] = type
        THEN send_command(st1, c, Invoke(c, "_emit_at_proxy", ev))
        ELSE st1

\* emit, as the component's class defines it
emit(st, c, type, info) ==
    IF st.kind[c] = "local" THEN LocalComponent_emit(st, c, type, info)
    ELSE Component_emit(st, c, type, info)

\* old == value2 on the JavaScript side: numbers have one type
JsNumber(v) == IF v.t = "int" THEN FloatV(v.v * 10) ELSE v

IsEqual(st, c, old, new) ==
    IF st.js[c] THEN JsNumber(old) = JsNumber(new) /\ old.t # "nan"
    ELSE old.t = new.t /\ old.v = new.v /\ old.t # "nan"

\* array[index:index+n], as Python clips a slice
Clip(n, len) == IF n > len THEN len ELSE n

ListInsert(l, i, objects) ==
    SubSeq(l, 1, Clip(i, Len(l))) \o objects \o SubSeq(l, Clip(i, Len(l)) + 1, Len(l))

ListRemove(l, i, n) ==
    SubSeq(l, 1, Clip(i, Len(l))) \o SubSeq(l, Clip(i + n, Len(l)) + 1, Len(l))

ListReplace(l, i, objects) ==
    SubSeq(l, 1, Clip(i, Len(l))) \o objects
        \o SubSeq(l, Clip(i + Len(objects), Len(l)) + 1, Len(l))

\* a replace that keeps the items it should overwrite
mutate_array_replace_keeps(array, mutation, index, objects) ==
    CASE mutation = "insert" -> ListV(ListInsert(array.v, index, objects.v))
      [] mutation = "remove" -> ListV(ListRemove(array.v, index, objects.v))
      [] mutation = "replace" -> ListV(ListInsert(array.v, index, objects.v))

\* _mutate_array_py on a list
mutate_array(array, mutation, index, objects) ==
    CASE mutation = "insert" -> ListV(ListInsert(array.v, index, objects.v))
      [] mutation = "remove" -> ListV(ListRemove(array.v, index, objects.v))
      [] mutation = "replace" -> ListV(ListReplace(array.v, index, objects.v))

\* _mutate without the check that an action is being processed
Component_mutate_unguarded(st, c, prop_name, val, mutation, index) ==
    LET old == st.value[c][prop_name]
        value2 == Validate(prop_name, val)
    IN  IF IsEqual(st, c, old, val) THEN st
        ELSE IF ~value2.ok THEN Raise(st, value2.exc)
        ELSE emit([st EXCEPT !.value[c][prop_name] = value2.val], c, prop_name,
                  SetEvent(c, prop_name, old, value2.val))

\* a _mutate that emits for an array mutation only if the value changed
Component_mutate_if_changed(st, c, prop_name, val, mutation, index) ==
    IF prop_name \notin Props THEN Raise(st, "AttributeError")
    ELSE IF ~is_processing_actions(st, LoopOf(c)) THEN Raise(st, "AttributeError")
    ELSE LET old == st.value[c][prop_name] IN
         IF mutation = "set"
         THEN IF IsEqual(st, c, old, val) THEN st
              ELSE LET value2 == Validate(prop_name, val) IN
                   IF ~value2.ok THEN Raise(st, value2.exc)
                   ELSE emit([st EXCEPT !.value[c][prop_name] = value2.val], c, prop_name,
                             SetEvent(c, prop_name, old, value2.val))
         ELSE IF index < 0 THEN Raise(st, "IndexError")
         ELSE IF mutate_array(old, mutation, index, val) = old THEN st
         ELSE emit([st EXCEPT !.value[c][prop_name] = mutate_array(old, mutation, index, val)],
                   c, prop_name,
                   [NoEvent EXCEPT !.objects = val, !.mutation = mutation, !.index = index])

\* a _mutate that takes a negative index as the slice assignment does
Component_mutate_any_index(st, c, prop_name, val, mutation, index) ==
    IF prop_name \notin Props THEN Raise(st, "AttributeError")
    ELSE IF ~is_processing_actions(st, LoopOf(c)) THEN Raise(st, "AttributeError")
    ELSE LET old == st.value[c][prop_name] IN
         IF mutation = "set"
         THEN IF IsEqual(st, c, old, val) THEN st
              ELSE LET value2 == Validate(prop_name, val) IN
                   IF ~value2.ok THEN Raise(st, value2.exc)
                   ELSE emit([st EXCEPT !.value[c][prop_name] = value2.val], c, prop_name,
                             SetEvent(c, prop_name, old, value2.val))
         ELSE emit([st EXCEPT !.value[c][prop_name] =
                                  mutate_array(old, mutation,
                                               IF index >= 0 THEN index
                                               ELSE IF Len(old.v) + index < 0 THEN 0
                                               ELSE Len(old.v) + index,
                                               val)],
                   c, prop_name,
                   [NoEvent EXCEPT !.objects = val, !.mutation = mutation, !.index = index])

Component_mutate(st, c, prop_name, val, mutation, index) ==
    IF prop_name \notin Props THEN Raise(st, "AttributeError")
    ELSE IF ~is_processing_actions(st, LoopOf(c)) THEN Raise(st, "AttributeError")
    ELSE LET old == st.value[c][prop_name] IN
         IF mutation = "set"
         THEN IF IsEqual(st, c, old, val) THEN st
              ELSE LET value2 == Validate(prop_name, val) IN
                   IF ~value2.ok THEN Raise(st, value2.exc)
                   ELSE emit([st EXCEPT !.value[c][prop_name] = value2.val], c, prop_name,
                             SetEvent(c, prop_name, old, value2.val))
         ELSE IF index < 0 THEN Raise(st, "IndexError")
         ELSE emit([st EXCEPT !.value[c][prop_name] = mutate_array(old, mutation, index, val)],
                   c, prop_name,
                   [NoEvent EXCEPT !.objects = val, !.mutation = mutation, !.index = index])

\* a proxy whose _mutate is the one of Component
ProxyComponent_mutate_inherited(st, c, prop_name, val, mutation, index) ==
    Component_mutate(st, c, prop_name, val, mutation, index)

ProxyComponent_mutate(st, c, prop_name, val, mutation, index) ==
    Raise(st, "RuntimeError")

\* self._mutate, as the component's class defines it
mutate(st, c, prop_name, val, mutation, index) ==
    IF st.kind[c] = "proxy" THEN ProxyComponent_mutate(st, c, prop_name, val, mutation, index)
    ELSE Component_mutate(st, c, prop_name, val, mutation, index)

\* a hook that reports every event type of the component
UsedEventTypes_all(st, c, i) == SubSeq(HandlerKeys, i, Len(HandlerKeys))

\* Component._registered_reactions_hook: the event types with a reaction
RECURSIVE UsedEventTypes(_, _, _)
UsedEventTypes(st, c, i) ==
    IF i > Len(HandlerKeys) THEN <<>>
    ELSE (IF Len(st.handlers[c][HandlerKeys[i]]) > 0 THEN <<HandlerKeys[i]>> ELSE <<>>)
             \o UsedEventTypes(st, c, i + 1)

ProxyComponent_registered_reactions_hook(st, c) ==
    IF ~st.disposed[c] /\ st.status[c] > 0
    THEN send_command(st, c, Invoke(c, "_flx_set_event_types_at_proxy",
                                    UsedEventTypes(st, c, 1)))
    ELSE st

registered_reactions_hook(st, c) ==
    IF st.kind[c] = "proxy" THEN ProxyComponent_registered_reactions_hook(st, c) ELSE st

RECURSIVE InsertSorted(_, _, _, _)
RECURSIVE InsertSorted_again(_, _, _, _)
\* a sorted insert that does not look for the pair being there already
InsertSorted_again(reactions, label, r, i) ==
    IF i > Len(reactions) THEN Append(reactions, <<label, r>>)
    ELSE IF ~StrLess(SortKey(reactions[i][1], reactions[i][2]), SortKey(label, r))
    THEN SubSeq(reactions, 1, i - 1) \o <<<<label, r>>>> \o SubSeq(reactions, i, Len(reactions))
    ELSE InsertSorted_again(reactions, label, r, i + 1)

\* the sorted insert of _register_reaction, from position i on
InsertSorted(reactions, label, r, i) ==
    IF i > Len(reactions) THEN Append(reactions, <<label, r>>)
    ELSE IF StrLess(SortKey(label, r), SortKey(reactions[i][1], reactions[i][2]))
    THEN SubSeq(reactions, 1, i - 1) \o <<<<label, r>>>> \o SubSeq(reactions, i, Len(reactions))
    ELSE IF SortKey(label, r) = SortKey(reactions[i][1], reactions[i][2])
    THEN reactions
    ELSE InsertSorted(reactions, label, r, i + 1)

RECURSIVE FlushCaptured(_, _, _, _, _)
\* _register_reaction's loop over the captured events of the type
FlushCaptured(st, c, type, r, i) ==
    IF i > Len(st.captured[c][type]) THEN st
    ELSE LET st1 == add_reaction_event(st, LoopOf(c), r, st.captured[c][type][i])
         IN  IF st1.exc # "" THEN st1 ELSE FlushCaptured(st1, c, type, r, i + 1)

\* Component._register_reaction(type + ':' + label, reaction); label "" is no label
register_reaction(st, c, type, label0, r) ==
    LET label == IF label0 = "" THEN RName(r) ELSE label0
        st1 == [st EXCEPT !.handlers[c][type] = InsertSorted(@, label, r, 1)]
        st2 == registered_reactions_hook(st1, c)
    IN  IF st2.capturing[c] THEN FlushCaptured(st2, c, type, r, 1) ELSE st2

RECURSIVE RemoveMatching(_, _, _)
RemoveMatching(reactions, label, r) ==
    IF reactions = <<>> THEN <<>>
    ELSE LET entry == Head(reactions)
             keep == (label # "" /\ label # entry[1]) \/ (r # "" /\ r # entry[2])
         IN  (IF keep THEN <<entry>> ELSE <<>>) \o RemoveMatching(Tail(reactions), label, r)

\* Component.disconnect(type + ':' + label, reaction); "" is no label, no reaction
disconnect(st, c, type, label, r) ==
    registered_reactions_hook(
        [st EXCEPT !.handlers[c][type] = RemoveMatching(@, label, r)], c)

(***************************************************************************)
(* Reaction (flexx/event/_reaction.py).                                    *)
(***************************************************************************)
\* Reaction.filter_events: the events that are not reconnect markers
filter_events(events) == SelectSeq(events, LAMBDA ev : ev.type \in EventTypes)

\* Reaction._clear_component_refs
clear_component_refs(st, r, c) ==
    IF is_explicit(r) THEN st
    ELSE [st EXCEPT !.connections[r] = {x \in @ : x[1] # c}]

RECURSIVE Reconnect(_, _, _, _, _)
\* Reaction.update_implicit_connections, for the properties of component c in
\* the order of __properties__: stale connections are dropped, new ones made
Reconnect(st, r, c, new, i) ==
    IF i > Len(PropList) THEN [st EXCEPT !.connections[r] = new]
    ELSE LET p == PropList[i]
             st1 == IF <<c, p>> \in st.connections[r] /\ <<c, p>> \notin new
                    THEN disconnect(st, c, p, "", r)
                    ELSE IF <<c, p>> \notin st.connections[r] /\ <<c, p>> \in new
                    THEN register_reaction(st, c, p, "", r)
                    ELSE st
         IN  IF st1.exc # "" THEN st1 ELSE Reconnect(st1, r, c, new, i + 1)

update_implicit_connections(st, r, c, new) == Reconnect(st, r, c, new, 1)

\* Reaction.dispose: it is disconnected from every component
Reaction_dispose(st, r) ==
    [st EXCEPT !.r_disposed[r] = TRUE,
               !.connections[r] = {},
               !.handlers = [c \in DOMAIN @ |-> [t \in DOMAIN @[c] |->
                                 SelectSeq(@[c][t], LAMBDA e : e[2] # r)]]]

(***************************************************************************)
(* Disposal.                                                               *)
(***************************************************************************)
\* the reactions the component's class declares
Declared(st, c) == IF st.kind[c] = "proxy" THEN {} ELSE DeclaredReactions

RECURSIVE ClearRefs(_, _, _)
\* _dispose's loop over the reactions of one handler list
ClearRefs(st, c, reactions) ==
    IF reactions = <<>> THEN st
    ELSE ClearRefs(clear_component_refs(st, Head(reactions)[2], c), c, Tail(reactions))

RECURSIVE ClearHandlers(_, _, _)
ClearHandlers(st, c, i) ==
    IF i > Len(HandlerKeys) THEN st
    ELSE LET st1 == ClearRefs(st, c, st.handlers[c][HandlerKeys[i]])
         IN  ClearHandlers([st1 EXCEPT !.handlers[c][HandlerKeys[i]] = <<>>], c, i + 1)

RECURSIVE DisposeReactions(_, _)
DisposeReactions(st, rs) ==
    IF rs = {} THEN st
    ELSE LET r == CHOOSE x \in rs : TRUE
         IN  DisposeReactions(Reaction_dispose(st, r), rs \ {r})

\* a _dispose that flips the flag instead of setting it
Component_dispose_flip(st, c) ==
    DisposeReactions(ClearHandlers([st EXCEPT !.disposed[c] = ~@], c, 1), Declared(st, c))

Component_dispose(st, c) ==
    DisposeReactions(ClearHandlers([st EXCEPT !.disposed[c] = TRUE], c, 1), Declared(st, c))

\* _dispose without the memory of an earlier disposal
LocalComponent_dispose_again(st, c) ==
    LET st1 == [Component_dispose(st, c) EXCEPT !.has_proxy[c] = FALSE,
                                                !.registered[c] = FALSE]
    IN  IF st1.status[c] > 0
        THEN send_command(st1, c, [cmd |-> "DISPOSE", id |-> c])
        ELSE st1

\* _dispose that tells the other side only while there is a proxy
LocalComponent_dispose_if_proxy(st, c) ==
    LET was_disposed == st.disposed[c]
        st1 == [Component_dispose(st, c) EXCEPT !.has_proxy[c] = FALSE]
    IN  IF ~was_disposed
        THEN LET st2 == [st1 EXCEPT !.registered[c] = FALSE]
             IN  IF st2.status[c] > 0 /\ st.has_proxy[c]
                 THEN send_command(st2, c, [cmd |-> "DISPOSE", id |-> c])
                 ELSE st2
        ELSE st1

\* _dispose that leaves _has_proxy as it is
LocalComponent_dispose_keeps_proxy(st, c) ==
    LET was_disposed == st.disposed[c]
        st1 == Component_dispose(st, c)
    IN  IF ~was_disposed
        THEN LET st2 == [st1 EXCEPT !.registered[c] = FALSE]
             IN  IF st2.status[c] > 0
                 THEN send_command(st2, c, [cmd |-> "DISPOSE", id |-> c])
                 ELSE st2
        ELSE st1

LocalComponent_dispose(st, c) ==
    LET was_disposed == st.disposed[c]
        st1 == [Component_dispose(st, c) EXCEPT !.has_proxy[c] = FALSE]
    IN  IF ~was_disposed
        THEN LET st2 == [st1 EXCEPT !.registered[c] = FALSE]
             IN  IF st2.status[c] > 0
                 THEN send_command(st2, c, [cmd |-> "DISPOSE", id |-> c])
                 ELSE st2
        ELSE st1

ProxyComponent_dispose(st, c) ==
    LET was_disposed == st.disposed[c]
        st1 == Component_dispose(st, c)
    IN  IF ~was_disposed
        THEN LET st2 == [st1 EXCEPT !.registered[c] = FALSE]
             IN  IF st2.status[c] > 0
                 THEN send_command(st2, c, Invoke(c, "_flx_set_has_proxy", FALSE))
                 ELSE st2
        ELSE st1

\* self._dispose(), as the component's class defines it
dispose_private(st, c) ==
    CASE st.kind[c] = "local" -> LocalComponent_dispose(st, c)
      [] st.kind[c] = "proxy" -> ProxyComponent_dispose(st, c)
      [] OTHER -> Component_dispose(st, c)

\* a dispose that also disposes the proxy at once
ProxyComponent_public_dispose_now(st, c) ==
    IF st.js[c] THEN Raise(st, "RuntimeError")
    ELSE IF st.status[c] > 0
    THEN dispose_private(send_command(st, c, Invoke(c, "dispose", <<>>)), c)
    ELSE dispose_private(st, c)

\* ProxyComponent.dispose
ProxyComponent_public_dispose(st, c) ==
    IF st.js[c] THEN Raise(st, "RuntimeError")
    ELSE IF st.status[c] > 0 THEN send_command(st, c, Invoke(c, "dispose", <<>>))
    ELSE dispose_private(st, c)

\* self.dispose(), as the component's class defines it
dispose(st, c) ==
    IF st.kind[c] = "proxy" THEN ProxyComponent_public_dispose(st, c)
    ELSE dispose_private(st, c)

(***************************************************************************)
(* Construction.                                                           *)
(***************************************************************************)
NoIds == [r \in {} |-> FALSE]

\* the state before any component is constructed; K and J give each
\* component's class and side, and every session is active
Blank(K, J) ==
    [kind |-> K,
     value |-> [c \in DOMAIN K |-> [p \in Props |-> NoneV]],
     handlers |-> [c \in DOMAIN K |-> [t \in EventTypes |-> <<>>]],
     capturing |-> [c \in DOMAIN K |-> FALSE],
     captured |-> [c \in DOMAIN K |-> [t \in EventTypes |-> <<>>]],
     disposed |-> [c \in DOMAIN K |-> FALSE],
     r_disposed |-> [r \in Reactions |-> FALSE],
     connections |-> [r \in Reactions |-> {}],
     pending_calls |-> [c \in DOMAIN K |-> <<>>],
     pending_actions |-> [c \in DOMAIN K |-> <<>>],
     pending_reactions |-> [c \in DOMAIN K |-> <<>>],
     pending_reaction_ids |-> [c \in DOMAIN K |-> NoIds],
     prop_access |-> [c \in DOMAIN K |-> {}],
     scheduled_update |-> [c \in DOMAIN K |-> FALSE],
     last_thread_id |-> [c \in DOMAIN K |-> 0],
     calllaterfunc |-> [c \in DOMAIN K |-> "none"],
     host_calls |-> [c \in DOMAIN K |-> 0],
     threads |-> [t \in Threads |-> NoIter],
     pc |-> [c \in DOMAIN K |-> "idle"],
     cur_calls |-> [c \in DOMAIN K |-> <<>>],
     cur_actions |-> [c \in DOMAIN K |-> <<>>],
     cur_reactions |-> [c \in DOMAIN K |-> <<>>],
     cur_reaction_ids |-> [c \in DOMAIN K |-> NoIds],
     has_proxy |-> [c \in DOMAIN K |-> FALSE],
     event_types_at_proxy |-> [c \in DOMAIN K |-> <<>>],
     status |-> [c \in DOMAIN K |-> 1],
     registered |-> [c \in DOMAIN K |-> FALSE],
     chan |-> [c \in DOMAIN K |-> <<>>],
     emitted |-> [c \in DOMAIN K |-> <<>>],
     invoked |-> [c \in DOMAIN K |-> <<>>],
     logged |-> [c \in DOMAIN K |-> <<>>],
     js |-> J,
     ret |-> NoneV,
     exc |-> ""]

RECURSIVE InitDefaults(_, _, _, _)
\* Component._comp_init_property_values, the loop over the defaults: each
\* property gets its validated default, and those without a given value an
\* initial event
InitDefaults(st, c, given, i) ==
    IF i > Len(PropList) THEN [st |-> st, events |-> <<>>]
    ELSE LET p == PropList[i]
             v == Validate(p, PropDefault(p)).val
             rest == InitDefaults([st EXCEPT !.value[c][p] = v], c, given, i + 1)
         IN  [st |-> rest.st,
              events |-> (IF p \in DOMAIN given THEN <<>> ELSE <<SetEvent(c, p, v, v)>>)
                             \o rest.events]

RECURSIVE InitGiven(_, _, _, _)
\* the loop over the values given: each is validated and stored at once
InitGiven(st, c, given, i) ==
    IF i > Len(PropList) THEN [st |-> st, events |-> <<>>]
    ELSE LET p == PropList[i] IN
         IF p \notin DOMAIN given THEN InitGiven(st, c, given, i + 1)
         ELSE LET value2 == Validate(p, given[p]) IN
              IF ~value2.ok THEN [st |-> Raise(st, value2.exc), events |-> <<>>]
              ELSE LET rest == InitGiven([st EXCEPT !.value[c][p] = value2.val],
                                         c, given, i + 1)
                   IN  [st |-> rest.st,
                        events |-> <<SetEvent(c, p, value2.val, value2.val)>> \o rest.events]

\* the events of the two loops, in their order
InitJoin(d, g) == [st |-> g.st, events |-> d.events \o g.events]

\* the second loop, after the first
InitSecond(d, c, given, i) ==
    IF ~(DOMAIN given \subseteq Props)
    THEN [st |-> Raise(d.st, "AttributeError"), events |-> <<>>]
    ELSE InitJoin(d, InitGiven(d.st, c, given, i))

\* Component._comp_init_property_values: the defaults, then the values given;
\* the result is the state and the initial events
InitValues(st, c, given, i) == InitSecond(InitDefaults(st, c, given, i), c, given, i)

\* an _ensure_proxy_instance that does not look at _has_proxy
ensure_proxy_instance_again(st, c, include_props) ==
    IF ~st.disposed[c] /\ st.status[c] > 0
    THEN [send_command(st, c, [cmd |-> "INSTANTIATE", id |-> c, args |-> <<>>,
                               props |-> IF include_props THEN st.value[c]
                                         ELSE [p \in {} |-> NoneV],
                               flx_has_proxy |-> FALSE])
             EXCEPT !.has_proxy[c] = TRUE]
    ELSE st

\* LocalComponent._ensure_proxy_instance
ensure_proxy_instance(st, c, include_props) ==
    IF ~st.has_proxy[c] /\ ~st.disposed[c] /\ st.status[c] > 0
    THEN [send_command(st, c, [cmd |-> "INSTANTIATE", id |-> c, args |-> <<>>,
                               props |-> IF include_props THEN st.value[c]
                                         ELSE [p \in {} |-> NoneV],
                               flx_has_proxy |-> FALSE])
             EXCEPT !.has_proxy[c] = TRUE]
    ELSE st

\* a proxy that applies the values it is given, however it was made
props2set_given(given, local_inst) == given

\* the values that the constructor of a proxy applies: those of the command
\* that made it, and none if user code made it
props2set(given, local_inst) == IF local_inst THEN [p \in {} |-> NoneV] ELSE given

\* _comp_init_property_values, as the component's class defines it; flx_id is
\* whether an id was given and flx_has_proxy the keyword of that name
comp_init_property_values(st, c, given, flx_id, flx_has_proxy) ==
    LET reg == [st EXCEPT !.registered[c] = TRUE]
    IN  CASE st.kind[c] = "local" ->
                 LET r == InitValues([reg EXCEPT !.has_proxy[c] = flx_has_proxy,
                                                 !.event_types_at_proxy[c] = <<>>],
                                     c, given, 1)
                 IN  IF st.js[c] \/ r.st.exc # "" THEN r
                     ELSE [r EXCEPT !.st = ensure_proxy_instance(r.st, c, FALSE)]
          [] st.kind[c] = "proxy" ->
                 LET r == InitValues(reg, c, props2set(given, ~flx_id), 1)
                 IN  [st |-> IF r.st.exc # "" THEN r.st
                             ELSE IF st.js[c]
                             THEN IF DOMAIN given = {} THEN r.st
                                  ELSE Raise(r.st, "AssertionError")
                             ELSE IF ~flx_id
                             THEN send_command(r.st, c, [cmd |-> "INSTANTIATE", id |-> c,
                                                         args |-> <<>>, props |-> given,
                                                         flx_has_proxy |-> TRUE])
                             ELSE r.st,
                      events |-> <<>>]
          [] OTHER -> InitValues(st, c, given, 1)

RECURSIVE InitReactions(_, _, _)
\* Component._comp_init_reactions: the implicit reactions are queued
InitReactions(st, c, rs) ==
    IF rs = {} THEN st
    ELSE LET r == CHOOSE x \in rs : TRUE
         IN  InitReactions(IF is_explicit(r) THEN st
                           ELSE add_reaction_event(st, LoopOf(c), r, InitEvent(c)),
                           c, rs \ {r})

RECURSIVE InitEvents(_, _, _)
\* Component._comp_init_events' loop over the initial events
InitEvents(st, c, events) ==
    IF events = <<>> \/ st.exc # "" THEN st
    ELSE InitEvents(emit(st, c, Head(events).type, Head(events)), c, Tail(events))

\* __init__ after the property values: the init hook, the reactions and the
\* call that ends the capturing of events
InitHooks(st, c) ==
    call_later(InitReactions(call_later(st, LoopOf(c),
                                        [func |-> "check_not_active", ob |-> c]),
                             c, Declared(st, c)),
               LoopOf(c), [func |-> "stop_capturing", ob |-> c])

\* __init__ from the result r of _comp_init_property_values on
InitFinish(r, c) ==
    IF r.st.exc # "" THEN r.st ELSE InitEvents(InitHooks(r.st, c), c, r.events)

\* Component.__init__
Component_init(st, c, given, flx_id, flx_has_proxy) ==
    InitFinish(comp_init_property_values([st EXCEPT !.capturing[c] = TRUE],
                                         c, given, flx_id, flx_has_proxy), c)

NoValues == [p \in {} |-> NoneV]

(***************************************************************************)
(* The calls user code makes. Each is recorded in trace, which bounds the  *)
(* behaviour to MaxOps calls.                                              *)
(***************************************************************************)
Comps == DOMAIN kind

\* the bound on the calls of a behaviour
Budget == budget

Record(op, c, a, b) ==
    /\ Len(trace) < Budget
    /\ trace' = Append(trace, [op |-> op, c |-> c, a |-> a, b |-> b])

Idle(c) == pc[LoopOf(c)] = "idle"

\* a proxy action that queues the invocation on the proxy's own loop
proxy_action_here(st, c, name, args) == add_action_invokation(st, LoopOf(c), c, name, args)

\* ProxyComponent._proxy_action
proxy_action(st, c, name, args) == send_command(st, c, Invoke(c, name, args))

\* calling an action: Action.__call__ queues the invocation, and on a proxy
\* the action is a proxy action
CallAction(c, func, arg) ==
    /\ Idle(c)
    /\ Record("action", c, func, arg)
    /\ Commit(IF kind[c] = "proxy" THEN proxy_action(St, c, func, arg)
              ELSE add_action_invokation(St, LoopOf(c), c, func, arg))

\* calling the mutator _mutate_<name>(value), from anywhere
DirectMutate(c, p, v) ==
    /\ Record("mutate", c, p, v)
    /\ Commit(mutate(St, c, p, v, "set", -1))

\* Component.reaction(type + ':' + label, func) for a reaction not yet made,
\* or the reaction connecting once more
Connect(c, type, label, r) ==
    /\ Idle(c)
    /\ ~r_disposed[r]
    /\ Record("connect", c, type, <<label, r>>)
    /\ Commit(register_reaction(St, c, type, label, r))

Disconnect(c, type, label, r) ==
    /\ Idle(c)
    /\ Record("disconnect", c, type, <<label, r>>)
    /\ Commit(disconnect(St, c, type, label, r))

\* emit(type) called by user code
Emit(c, type) ==
    /\ Idle(c)
    /\ Record("emit", c, type, "")
    /\ Commit(emit(St, c, type, NoEvent))

Dispose(c) ==
    /\ Idle(c)
    /\ Record("dispose", c, "", "")
    /\ Commit(dispose(St, c))

(***************************************************************************)
(* Loop.iter, one step per queue swap and per entry run.                   *)
(***************************************************************************)
\* an iter that leaves _scheduled_update as it is
iter_begin_stays_scheduled(st, s) ==
    [st EXCEPT !.last_thread_id[s] = MainThread,
               !.cur_calls[s] = st.pending_calls[s],
               !.pending_calls[s] = <<>>,
               !.cur_actions[s] = st.pending_actions[s],
               !.pending_actions[s] = <<>>,
               !.emitted = [c \in DOMAIN @ |-> IF LoopOf(c) = s THEN <<>> ELSE @[c]],
               !.invoked[s] = <<>>,
               !.logged[s] = <<>>,
               !.pc[s] = "calls"]

\* the start of iter on the main thread: the calls and the actions are
\* swapped out
iter_begin(st, s) ==
    [st EXCEPT !.last_thread_id[s] = MainThread,
               !.scheduled_update[s] = FALSE,
               !.cur_calls[s] = st.pending_calls[s],
               !.pending_calls[s] = <<>>,
               !.cur_actions[s] = st.pending_actions[s],
               !.pending_actions[s] = <<>>,
               !.emitted = [c \in DOMAIN @ |-> IF LoopOf(c) = s THEN <<>> ELSE @[c]],
               !.invoked[s] = <<>>,
               !.logged[s] = <<>>,
               !.pc[s] = "calls"]

\* loop.iter() called by user code
IterBegin(s) ==
    /\ pc[s] = "idle"
    /\ Record("iter", s, "", "")
    /\ Commit(iter_begin(St, s))
    
\* what a queued function does
CallBody(st, call) ==
    IF call.func = "stop_capturing"
    THEN [st EXCEPT !.capturing[call.ob] = FALSE,
                    !.captured[call.ob] = [t \in EventTypes |-> <<>>]]
    ELSE IF call.func = "fail" THEN Raise(st, "Exception")
    ELSE st

\* an iter that drops the rest of its actions when one raises
Caught_abort(st, s) ==
    IF st.exc = "" THEN st
    ELSE [st EXCEPT !.logged[s] = Append(@, st.exc), !.exc = "", !.cur_actions[s] = <<>>]

\* an iter without its try blocks: the exception goes on to the caller
Caught_propagates(st, s) == st

\* an exception raised by an entry is logged by iter
Caught(st, s) ==
    IF st.exc = "" THEN st
    ELSE [st EXCEPT !.logged[s] = Append(@, st.exc), !.exc = ""]

RunCall(s) ==
    /\ pc[s] = "calls"
    /\ cur_calls[s] # <<>>
    /\ Commit(Caught([CallBody(St, Head(cur_calls[s])) EXCEPT !.cur_calls[s] = Tail(@)], s))
    /\ UNCHANGED trace

CallsDone(s) ==
    /\ pc[s] = "calls"
    /\ cur_calls[s] = <<>>
    /\ Commit([St EXCEPT !.pc[s] = "actions"])
    /\ UNCHANGED trace

\* _emit_at_proxy that applies set mutations only and emits the others
emit_at_proxy_set_only(st, c, ev) ==
    IF ev.type \in Props /\ ev.mutation = "set"
    THEN Component_mutate(st, c, ev.type, ev.new_value, "set", -1)
    ELSE emit(st, c, ev.type, ev)

\* ProxyComponent._emit_at_proxy
emit_at_proxy(st, c, ev) ==
    IF ev.type \in Props /\ ev.mutation # ""
    THEN IF ev.mutation = "set"
         THEN Component_mutate(st, c, ev.type, ev.new_value, "set", -1)
         ELSE Component_mutate(st, c, ev.type, ev.objects, ev.mutation, ev.index)
    ELSE emit(st, c, ev.type, ev)

\* the body of a queued action
ActionBody(st, a) ==
    CASE a.func = "increment" ->
             mutate(register_prop_access(st, LoopOf(a.ob), a.ob, "count", MainThread),
                    a.ob, "count",
                    IntV(st.value[a.ob]["count"].v + 1), "set", -1)
      [] a.func = "set_count" -> mutate(st, a.ob, "count", a.args, "set", -1)
      [] a.func = "set_foo" -> mutate(st, a.ob, "foo", a.args, "set", -1)
      [] a.func = "set_eggs" -> mutate(st, a.ob, "eggs", a.args, "set", -1)
      [] a.func = "mutate_eggs" ->
             mutate(st, a.ob, "eggs", a.args.objects, a.args.mutation, a.args.index)
      [] a.func = "_emit_at_proxy" -> emit_at_proxy(st, a.ob, a.args)

RunAction(s) ==
    /\ pc[s] = "actions"
    /\ cur_actions[s] # <<>>
    /\ Commit(Caught([ActionBody(St, Head(cur_actions[s])) EXCEPT !.cur_actions[s] = Tail(@)],
                     s))
    /\ UNCHANGED trace

\* the end of the action phase: the reactions are swapped out
SwapReactions(s) ==
    /\ pc[s] = "actions"
    /\ cur_actions[s] = <<>>
    /\ Commit([St EXCEPT !.cur_reactions[s] = pending_reactions[s],
                         !.cur_reaction_ids[s] = pending_reaction_ids[s],
                         !.pending_reactions[s] = <<>>,
                         !.pending_reaction_ids[s] = NoIds,
                         !.pc[s] = "reactions"])
    /\ UNCHANGED trace

RECURSIVE ReadProps(_, _, _, _)
\* the property reads of a reaction's body
ReadProps(st, s, c, reads) ==
    IF reads = {} THEN st
    ELSE LET p == CHOOSE x \in reads : TRUE
         IN  ReadProps(register_prop_access(st, s, c, p, MainThread), s, c, reads \ {p})

\* iter's handling of one queue entry; reads are the properties of the
\* loop's component that the body of an implicit reaction reads
HandleReaction(st, s, entry, reads) ==
    LET r      == entry.reaction
        events == IF is_explicit(r) THEN filter_events(entry.events) ELSE entry.events
        st1    == IF Len(events) > 0 \/ ~is_explicit(r)
                  THEN ReadProps([st EXCEPT !.prop_access[s] = {},
                                            !.invoked[s] = Append(@, [reaction |-> r,
                                                                      events |-> events,
                                                                      reads |-> reads])],
                                 s, s, reads)
                  ELSE st
        st2    == IF ~is_explicit(r) /\ st.cur_reaction_ids[s][r]
                  THEN update_implicit_connections(st1, r, s, st1.prop_access[s])
                  ELSE st1
    IN  [st2 EXCEPT !.prop_access[s] = {}]

RunReaction(s, reads) ==
    /\ pc[s] = "reactions"
    /\ cur_reactions[s] # <<>>
    /\ is_explicit(Head(cur_reactions[s]).reaction) => reads = {}
    /\ Commit([HandleReaction(St, s, Head(cur_reactions[s]), reads)
                  EXCEPT !.cur_reactions[s] = Tail(@)])
    /\ UNCHANGED trace

IterEnd(s) ==
    /\ pc[s] = "reactions"
    /\ cur_reactions[s] = <<>>
    /\ Commit([St EXCEPT !.pc[s] = "idle"])
    /\ UNCHANGED trace

(***************************************************************************)
(* The specification of one plain component and its loop.                  *)
(***************************************************************************)
Start(st) ==
    /\ kind = st.kind
    /\ value = st.value
    /\ handlers = st.handlers
    /\ capturing = st.capturing
    /\ captured = st.captured
    /\ disposed = st.disposed
    /\ r_disposed = st.r_disposed
    /\ connections = st.connections
    /\ pending_calls = st.pending_calls
    /\ pending_actions = st.pending_actions
    /\ pending_reactions = st.pending_reactions
    /\ pending_reaction_ids = st.pending_reaction_ids
    /\ prop_access = st.prop_access
    /\ scheduled_update = st.scheduled_update
    /\ last_thread_id = st.last_thread_id
    /\ calllaterfunc = st.calllaterfunc
    /\ host_calls = st.host_calls
    /\ threads = st.threads
    /\ pc = st.pc
    /\ cur_calls = st.cur_calls
    /\ cur_actions = st.cur_actions
    /\ cur_reactions = st.cur_reactions
    /\ cur_reaction_ids = st.cur_reaction_ids
    /\ has_proxy = st.has_proxy
    /\ event_types_at_proxy = st.event_types_at_proxy
    /\ status = st.status
    /\ registered = st.registered
    /\ chan = st.chan
    /\ emitted = st.emitted
    /\ invoked = st.invoked
    /\ logged = st.logged
    /\ js = st.js
    /\ err = st.exc
    /\ ret = st.ret
    /\ trace = <<>>

\* the values the model passes to set_count and to the mutator
Inputs == {IntV(0), IntV(1), FloatV(15), StrV("1"), NoneV}

Init ==
    /\ Start(Component_init(Blank([c \in {"m"} |-> "plain"], [c \in {"m"} |-> FALSE]),
                            "m", NoValues, FALSE, FALSE))
    /\ budget = MaxOps

Next ==
    \/ \E v \in Inputs : CallAction("m", "set_count", v)
    \/ CallAction("m", "increment", NoneV)
    \/ \E v \in {IntV(0), StrV("1")} : DirectMutate("m", "count", v)
    \/ \E r \in {"r1", "r2"}, l \in Labels : Connect("m", "count", l, r)
    \/ IterBegin("m")
    \/ RunCall("m")
    \/ CallsDone("m")
    \/ RunAction("m")
    \/ SwapReactions("m")
    \/ \E reads \in SUBSET {"count", "foo"} : RunReaction("m", reads)
    \/ IterEnd("m")

Spec == Init /\ [][Next]_vars

(***************************************************************************)
(* The specification of construction: user code makes the component m      *)
(* with keyword arguments, and then calls its setters and runs the loop.   *)
(***************************************************************************)
\* the keyword arguments given to the constructor
Givens ==
    {NoValues,
     [p \in {"foo"} |-> IntV(9)],
     [p \in {"eggs3"} |-> ListV(<<7>>)],
     [p \in {"count"} |-> NoneV],
     [p \in {"count", "foo"} |-> IF p = "count" THEN StrV("1") ELSE IntV(9)],
     [p \in {"spam"} |-> IntV(1)]}

\* what a constructor leaves: the component, or the exception it raised
Constructor(st0, st) == IF st.exc # "" THEN Raise(st0, st.exc) ELSE st

\* m = MyObject(**given); a constructor that raises leaves no component
New(c, given) ==
    /\ trace = <<>>
    /\ Record("new", c, given, "")
    /\ Commit(Constructor(St, Component_init(St, c, given, FALSE, FALSE)))

\* the constructor of c has returned the component
Constructed(c) == trace # <<>> /\ value[c] # [p \in Props |-> NoneV]

\* m.set_<p>(v): the class has the setter action of a settable property only
CallSetter(c, p, v) ==
    /\ Constructed(c)
    /\ Idle(c)
    /\ Record("action", c, p, v)
    /\ Commit(IF p \in Settable
              THEN add_action_invokation(St, LoopOf(c), c,
                                         CASE p = "count" -> "set_count"
                                           [] p = "eggs" -> "set_eggs"
                                           [] p = "foo" -> "set_foo", v)
              ELSE Raise(St, "AttributeError"))

InitNew ==
    /\ Start(Blank([c \in {"m"} |-> "plain"], [c \in {"m"} |-> FALSE]))
    /\ budget = MaxNewOps

NextNew ==
    \/ \E given \in Givens : New("m", given)
    \/ \E p \in {"foo", "eggs3"} : CallSetter("m", p, IF p = "foo" THEN IntV(1) ELSE ListV(<<7>>))
    \/ IterBegin("m")
    \/ RunCall("m")
    \/ CallsDone("m")
    \/ RunAction("m")
    \/ SwapReactions("m")
    \/ \E reads \in {{}, {"foo"}} : RunReaction("m", reads)
    \/ IterEnd("m")

SpecNew == InitNew /\ [][NextNew]_vars

(***************************************************************************)
(* The specification of the array mutations of one plain component: the    *)
(* calls are those of test_property_list_mutate, made in any order.        *)
(***************************************************************************)
ArrayMutation(mutation, index, objects) ==
    [mutation |-> mutation, index |-> index, objects |-> objects]

\* the calls of the test, in its order
TestMutations ==
    <<ArrayMutation("insert", 0, ListV(<<5, 6>>)),
      ArrayMutation("insert", 0, ListV(<<1, 2>>)),
      ArrayMutation("insert", 2, ListV(<<3, 4>>)),
      ArrayMutation("insert", 6, ListV(<<7, 8>>)),
      ArrayMutation("replace", 3, ListV(<<44, 55, 66>>)),
      ArrayMutation("remove", 3, IntV(3))>>

InitList ==
    /\ Start(Component_init(Blank([c \in {"m"} |-> "plain"], [c \in {"m"} |-> FALSE]),
                            "m", NoValues, FALSE, FALSE))
    /\ budget = MaxListOps

NextList ==
    \/ \E k \in 1..Len(TestMutations) : CallAction("m", "mutate_eggs", TestMutations[k])
    \/ IterBegin("m")
    \/ RunCall("m")
    \/ CallsDone("m")
    \/ RunAction("m")
    \/ SwapReactions("m")
    \/ RunReaction("m", {})
    \/ IterEnd("m")

SpecList == InitList /\ [][NextList]_vars

(***************************************************************************)
(* The specification of a local component L and its proxy P, each in its   *)
(* own process with its own loop, joined by a session.                     *)
(***************************************************************************)
Peer(c) == IF c = "L" THEN "P" ELSE "L"

\* the work a session does with a command it receives for component c
HandleCommand(st, c, command) ==
    IF command.cmd = "INSTANTIATE"
    THEN IF st.registered[c] \/ st.disposed[c] THEN st
         ELSE Component_init(st, c, command.props, TRUE, command.flx_has_proxy)
    ELSE IF ~st.registered[c] THEN st
    ELSE IF command.cmd = "DISPOSE" THEN dispose_private(st, c)
    ELSE CASE command.name = "_flx_set_has_proxy" ->
                  [st EXCEPT !.has_proxy[c] = command.args]
           [] command.name = "_flx_set_event_types_at_proxy" ->
                  [st EXCEPT !.event_types_at_proxy[c] = command.args]
           [] command.name = "dispose" -> dispose(st, c)
           [] OTHER -> add_action_invokation(st, LoopOf(c), c, command.name, command.args)

\* the session of c's process receives the oldest command its peer sent
Receive(c) ==
    /\ Idle(c)
    /\ chan[Peer(c)] # <<>>
    /\ Commit(Caught(HandleCommand([St EXCEPT !.chan[Peer(c)] = Tail(@)], c,
                                   Head(chan[Peer(c)])), c))
    /\ UNCHANGED trace

\* the session of c's process is closed
CloseSession(c) ==
    /\ status[c] > 0
    /\ Commit([St EXCEPT !.status[c] = 0])
    /\ UNCHANGED trace

AppKinds == [c \in {"L", "P"} |-> IF c = "L" THEN "local" ELSE "proxy"]

\* the session of c's process makes c from the INSTANTIATE command that the
\* constructor of its peer has sent
Instantiate(st, c, flx_id, flx_has_proxy) ==
    Component_init([st EXCEPT !.chan[Peer(c)] = Tail(@)], c,
                   Head(st.chan[Peer(c)]).props, flx_id, flx_has_proxy)

\* a PyComponent: L is made in Python, and P in JavaScript by the INSTANTIATE
\* command that L sends
PyComponent_init ==
    Instantiate(Component_init(Blank(AppKinds, [c \in {"L", "P"} |-> c = "P"]),
                               "L", NoValues, FALSE, FALSE),
                "P", TRUE, FALSE)

\* a JsComponent: P is made in Python, and L in JavaScript by the INSTANTIATE
\* command that P sends
JsComponent_init ==
    Instantiate(Component_init(Blank(AppKinds, [c \in {"L", "P"} |-> c = "L"]),
                               "P", NoValues, FALSE, FALSE),
                "L", FALSE, TRUE)

InitApp ==
    /\ Start(PyComponent_init) \/ Start(JsComponent_init)
    /\ budget = MaxAppOps

NextApp ==
    \/ \E c \in {"L", "P"}, v \in {IntV(1), StrV("1")} : CallAction(c, "set_count", v)
    \/ \E v \in {IntV(1)} : DirectMutate("P", "count", v)
    \/ Connect("P", "bar", "a", "r1")
    \/ Connect("L", "count", "a", "r2")
    \/ \E c \in {"L", "P"} : Emit(c, "bar")
    \/ \E c \in {"L", "P"} : Dispose(c)
    \/ \E c \in {"L", "P"} : Receive(c)
    \/ \E c \in {"L", "P"} : CloseSession(c)
    \/ \E s \in {"L", "P"} : IterBegin(s)
    \/ \E s \in {"L", "P"} : RunCall(s)
    \/ \E s \in {"L", "P"} : CallsDone(s)
    \/ \E s \in {"L", "P"} : RunAction(s)
    \/ \E s \in {"L", "P"} : SwapReactions(s)
    \/ \E s \in {"L", "P"}, reads \in {{}, {"count"}} : RunReaction(s, reads)
    \/ \E s \in {"L", "P"} : IterEnd(s)

SpecApp == InitApp /\ [][NextApp]_vars

(***************************************************************************)
(* The specification of the mirroring of property mutations: the actions   *)
(* of L set and mutate its properties, and the session and the two loops   *)
(* carry the events to P.                                                  *)
(***************************************************************************)
\* the arguments of the calls self._mutate_eggs(objects, mutation, index)
ArrayMutations ==
    {[mutation |-> "insert", index |-> 0, objects |-> ListV(<<7, 8>>)],
     [mutation |-> "remove", index |-> 0, objects |-> IntV(1)],
     [mutation |-> "replace", index |-> 1, objects |-> ListV(<<5>>)]}

NextSync ==
    \/ CallAction("L", "set_eggs", ListV(<<1, 2>>))
    \/ \E m \in ArrayMutations : CallAction("L", "mutate_eggs", m)
    \/ \E c \in {"L", "P"} : Receive(c)
    \/ \E s \in {"L", "P"} : IterBegin(s)
    \/ \E s \in {"L", "P"} : RunCall(s)
    \/ \E s \in {"L", "P"} : CallsDone(s)
    \/ \E s \in {"L", "P"} : RunAction(s)
    \/ \E s \in {"L", "P"} : SwapReactions(s)
    \/ \E s \in {"L", "P"} : RunReaction(s, {})
    \/ \E s \in {"L", "P"} : IterEnd(s)

InitSync ==
    /\ Start(PyComponent_init) \/ Start(JsComponent_init)
    /\ budget = MaxSyncOps

SpecSync == InitSync /\ [][NextSync]_vars

(***************************************************************************)
(* The specification of disposal: L and P as before, or L a JsComponent    *)
(* that user code made in JavaScript, which has no proxy: P is not made.   *)
(***************************************************************************)
JsLocal_init ==
    Component_init(Blank(AppKinds, [c \in {"L", "P"} |-> c = "L"]),
                   "L", NoValues, FALSE, FALSE)

\* the component has been constructed
Made(c) == registered[c] \/ disposed[c]

InitDispose ==
    /\ Start(PyComponent_init) \/ Start(JsComponent_init) \/ Start(JsLocal_init)
    /\ budget = MaxDisposeOps

NextDispose ==
    \/ \E c \in {"L", "P"} : Made(c) /\ Dispose(c)
    \/ Made("P") /\ Connect("P", "bar", "a", "r1")
    \/ \E c \in {"L", "P"} : Receive(c)
    \/ \E c \in {"L", "P"} : CloseSession(c)
    \/ \E s \in {"L", "P"} : IterBegin(s)
    \/ \E s \in {"L", "P"} : RunCall(s)
    \/ \E s \in {"L", "P"} : CallsDone(s)
    \/ \E s \in {"L", "P"} : RunAction(s)
    \/ \E s \in {"L", "P"} : SwapReactions(s)
    \/ \E s \in {"L", "P"} : RunReaction(s, {})
    \/ \E s \in {"L", "P"} : IterEnd(s)

SpecDispose == InitDispose /\ [][NextDispose]_vars

(***************************************************************************)
(* The serializer's extension for components (BsdfComponentExtension).     *)
(* L and P belong to one session and have one component id; a process      *)
(* knows this session only.                                                *)
(***************************************************************************)
SessionId(c) == "s1"
CompId(c) == "c1"

\* the references the model decodes: of the session or of another one, with
\* the id of the component or an id that no component has
Refs == {[session_id |-> sid, id |-> id] : sid \in {"s1", "s2"}, id \in {"c1", "c9"}}

\* encode, and encode_js
encode(st, c) ==
    LET st1 == IF st.kind[c] = "local" THEN ensure_proxy_instance(st, c, TRUE) ELSE st
    IN  [st1 EXCEPT !.ret = [t |-> "ref",
                             v |-> [session_id |-> SessionId(c), id |-> CompId(c)]]]

\* manager.get_session_by_id and window.flexx.sessions.get: whether the
\* process knows a session of this id
get_session_by_id(session_id) == session_id = "s1"

\* session.get_component_instance in the process of s: the components of
\* the process that are registered under the id
get_component_instance(st, s, id) ==
    {c \in DOMAIN st.kind : st.js[c] = st.js[s] /\ st.registered[c] /\ CompId(c) = id}

\* StubComponent(session, id): a component without properties, whose
\* constructor queues its two calls on the loop of the process
StubComponent(st, s, d) ==
    LET st1 == call_later(st, LoopOf(s), [func |-> "check_not_active", ob |-> "stub"])
        st2 == call_later(st1, LoopOf(s), [func |-> "stop_capturing_stub", ob |-> "stub"])
    IN  [st2 EXCEPT !.ret = [t |-> "stub",
                             v |-> [session_id |-> d.session_id, id |-> d.id,
                                    properties |-> {}]]]

\* a decode that does not look the component up
decode_always_stub(st, s, d) ==
    IF ~get_session_by_id(d.session_id)
    THEN IF st.js[s] THEN StubComponent(st, s, d) ELSE Raise(st, "AttributeError")
    ELSE StubComponent(st, s, d)

\* decode in the process of s, and decode_js; in Python the session of the
\* stub is a plain object(), which takes no attribute
decode(st, s, d) ==
    IF ~get_session_by_id(d.session_id)
    THEN IF st.js[s] THEN StubComponent(st, s, d) ELSE Raise(st, "AttributeError")
    ELSE LET found == get_component_instance(st, s, d.id) IN
         IF found = {} THEN StubComponent(st, s, d)
         ELSE [st EXCEPT !.ret = [t |-> "component", v |-> CHOOSE c \in found : TRUE]]

\* the serializer encodes component c
Encode(c) ==
    /\ Made(c)
    /\ Record("encode", c, "", "")
    /\ Commit(encode(St, c))

\* the serializer of the process of s decodes the reference d
Decode(s, d) ==
    /\ Record("decode", s, d, "")
    /\ Commit(decode(St, s, d))

InitCodec ==
    /\ Start(PyComponent_init) \/ Start(JsComponent_init) \/ Start(JsLocal_init)
    /\ budget = MaxCodecOps

NextCodec ==
    \/ \E c \in {"L", "P"} : Encode(c)
    \/ \E s \in {"L", "P"}, d \in Refs : Decode(s, d)
    \/ \E c \in {"L", "P"} : Made(c) /\ Dispose(c)
    \/ \E c \in {"L", "P"} : Receive(c)
    \/ \E s \in {"L", "P"} : IterBegin(s)
    \/ \E s \in {"L", "P"} : RunCall(s)
    \/ \E s \in {"L", "P"} : CallsDone(s)
    \/ \E s \in {"L", "P"} : RunAction(s)
    \/ \E s \in {"L", "P"} : SwapReactions(s)
    \/ \E s \in {"L", "P"} : RunReaction(s, {})
    \/ \E s \in {"L", "P"} : IterEnd(s)

SpecCodec == InitCodec /\ [][NextCodec]_vars

(***************************************************************************)
(* The specification of the construction of a local component and its      *)
(* proxy: user code makes L, or it makes P, with keyword arguments, and    *)
(* the session of the other process makes the other one when the           *)
(* INSTANTIATE command arrives. P is in Python or in JavaScript.           *)
(***************************************************************************)
\* the keyword arguments given to the constructors
ProxyGivens ==
    {NoValues,
     [p \in {"count"} |-> StrV("1")],
     [p \in {"count", "foo"} |-> IF p = "count" THEN IntV(2) ELSE IntV(9)]}

\* ProxyComponent.__init__(*init_args, **kwargs) called by user code, so
\* without flx_id; in Python the arguments are kept for the command
ProxyComponent_init(st, c, init_args, given) ==
    IF st.js[c] THEN Raise(st, "RuntimeError")
    ELSE LET st1 == Component_init(st, c, given, FALSE, FALSE)
         IN  [st1 EXCEPT !.chan[c] =
                 [k \in 1..Len(st1.chan[c]) |->
                     IF st1.chan[c][k].cmd = "INSTANTIATE"
                     THEN [st1.chan[c][k] EXCEPT !.args = init_args]
                     ELSE st1.chan[c][k]]]

\* P = MyComponent(*init_args, **given) in the process of the proxy
NewProxy(c, init_args, given) ==
    /\ trace = <<>>
    /\ Record("new", c, given, init_args)
    /\ Commit(Constructor(St, ProxyComponent_init(St, c, init_args, given)))

InitProxy ==
    /\ \/ Start(Blank(AppKinds, [c \in {"L", "P"} |-> c = "L"]))
       \/ Start(Blank(AppKinds, [c \in {"L", "P"} |-> c = "P"]))
    /\ budget = MaxProxyOps

NextProxy ==
    \/ \E given \in ProxyGivens : New("L", given)
    \/ \E init_args \in {<<>>, <<1>>}, given \in ProxyGivens : NewProxy("P", init_args, given)
    \/ Encode("L")
    \/ \E c \in {"L", "P"} : Receive(c)
    \/ \E s \in {"L", "P"} : IterBegin(s)
    \/ \E s \in {"L", "P"} : RunCall(s)
    \/ \E s \in {"L", "P"} : CallsDone(s)
    \/ \E s \in {"L", "P"} : RunAction(s)
    \/ \E s \in {"L", "P"} : SwapReactions(s)
    \/ \E s \in {"L", "P"} : RunReaction(s, {})
    \/ \E s \in {"L", "P"} : IterEnd(s)

SpecProxy == InitProxy /\ [][NextProxy]_vars

(***************************************************************************)
(* The specification of the event types at the proxy: user code registers  *)
(* reactions on P and disconnects them, disposes P and closes its session, *)
(* and the sessions deliver the commands.                                  *)
(***************************************************************************)
InitTypes ==
    /\ Start(PyComponent_init) \/ Start(JsComponent_init)
    /\ budget = MaxTypeOps

NextTypes ==
    \/ \E type \in {"bar", "count"}, r \in {"r1", "r2"} : Connect("P", type, "a", r)
    \/ \E type \in {"bar", "count"}, r \in {"r1", ""} : Disconnect("P", type, "", r)
    \/ Dispose("P")
    \/ \E c \in {"L", "P"} : Receive(c)
    \/ CloseSession("P")

SpecTypes == InitTypes /\ [][NextTypes]_vars

(***************************************************************************)
(* The specification of a local component's commands: user code makes L,   *)
(* or L and P are there; L is serialized, emits, is set and is disposed,   *)
(* P is disposed and gets a reaction, the session of L is closed, and the  *)
(* sessions deliver the commands.                                          *)
(***************************************************************************)
InitLocal ==
    /\ \/ Start(Blank(AppKinds, [c \in {"L", "P"} |-> c = "L"]))
       \/ Start(Blank(AppKinds, [c \in {"L", "P"} |-> c = "P"]))
       \/ Start(PyComponent_init)
       \/ Start(JsComponent_init)
    /\ budget = MaxLocalOps

NextLocal ==
    \/ ~Made("L") /\ New("L", NoValues)
    \/ ~Made("P") /\ NewProxy("P", <<>>, NoValues)
    \/ Encode("L")
    \/ Made("L") /\ Emit("L", "bar")
    \/ Made("L") /\ CallAction("L", "set_count", IntV(1))
    \/ \E c \in {"L", "P"} : Made(c) /\ Dispose(c)
    \/ Made("P") /\ Connect("P", "bar", "a", "r1")
    \/ \E c \in {"L", "P"} : Receive(c)
    \/ CloseSession("L")
    \/ IterBegin("L")
    \/ RunCall("L")
    \/ CallsDone("L")
    \/ RunAction("L")
    \/ SwapReactions("L")
    \/ RunReaction("L", {})
    \/ IterEnd("L")

SpecLocal == InitLocal /\ [][NextLocal]_vars

(***************************************************************************)
(* The specification of the array mutations at the edges: mutations that   *)
(* leave the list as it is, mutations beyond its end and mutations with a  *)
(* negative index, among others.                                           *)
(***************************************************************************)
EdgeMutations ==
    {ArrayMutation("insert", 0, ListV(<<>>)),
     ArrayMutation("insert", 0, ListV(<<1, 2>>)),
     ArrayMutation("insert", 1, ListV(<<3>>)),
     ArrayMutation("replace", 0, ListV(<<1>>)),
     ArrayMutation("replace", 5, ListV(<<>>)),
     ArrayMutation("remove", 0, IntV(0)),
     ArrayMutation("remove", 0, IntV(1)),
     ArrayMutation("remove", 9, IntV(2)),
     ArrayMutation("insert", -1, ListV(<<7>>)),
     ArrayMutation("remove", -1, IntV(1)),
     ArrayMutation("replace", -2, ListV(<<5>>))}

InitMutate ==
    /\ Start(Component_init(Blank([c \in {"m"} |-> "plain"], [c \in {"m"} |-> FALSE]),
                            "m", NoValues, FALSE, FALSE))
    /\ budget = MaxMutateOps

NextMutate ==
    \/ \E x \in EdgeMutations : CallAction("m", "mutate_eggs", x)
    \/ IterBegin("m")
    \/ RunCall("m")
    \/ CallsDone("m")
    \/ RunAction("m")
    \/ SwapReactions("m")
    \/ RunReaction("m", {})
    \/ IterEnd("m")

SpecMutate == InitMutate /\ [][NextMutate]_vars

(***************************************************************************)
(* The specification of the loop: user code queues callbacks and actions   *)
(* and connects reactions between the iterations, and the bodies that an   *)
(* iteration runs queue callbacks and actions, emit events and raise. The  *)
(* body of the implicit reaction reads count.                              *)
(***************************************************************************)
\* loop.call_later(func) called by user code; func raises when it is "fail"
CallLater(s, func) ==
    /\ Idle(s)
    /\ Record("call_later", s, func, "")
    /\ Commit(call_later(St, s, [func |-> func, ob |-> s]))

\* the body of the callback, action or reaction that the iteration is
\* running calls loop.call_later(func)
BodyCallsLater(s, func) ==
    /\ ~Idle(s)
    /\ Record("call_later", s, func, "")
    /\ Commit(call_later(St, s, [func |-> func, ob |-> s]))

\* the running body calls an action
BodyCallsAction(c, func, arg) ==
    /\ ~Idle(c)
    /\ Record("action", c, func, arg)
    /\ Commit(add_action_invokation(St, LoopOf(c), c, func, arg))

\* the running body emits an event
BodyEmits(c, type) ==
    /\ ~Idle(c)
    /\ Record("emit", c, type, "")
    /\ Commit(Caught(emit(St, c, type, NoEvent), LoopOf(c)))

\* iter handles a queue entry whose reaction raises after its reads
RunReactionRaises(s, reads) ==
    /\ pc[s] = "reactions"
    /\ cur_reactions[s] # <<>>
    /\ is_explicit(Head(cur_reactions[s]).reaction) => reads = {}
    /\ Commit(Caught(Raise([HandleReaction(St, s, Head(cur_reactions[s]), reads)
                               EXCEPT !.cur_reactions[s] = Tail(@)], "Exception"), s))
    /\ UNCHANGED trace

InitLoop ==
    /\ Start(Component_init(Blank([c \in {"m"} |-> "plain"], [c \in {"m"} |-> FALSE]),
                            "m", NoValues, FALSE, FALSE))
    /\ budget = MaxLoopOps

NextLoop ==
    \/ \E v \in {IntV(1), NoneV} : CallAction("m", "set_count", v)
    \/ CallLater("m", "fail")
    \/ \E type \in {"count", "bar"}, r \in {"r1", "r2"} : Connect("m", type, "a", r)
    \/ BodyCallsLater("m", "fail")
    \/ BodyCallsAction("m", "set_count", IntV(2))
    \/ BodyEmits("m", "bar")
    \/ IterBegin("m")
    \/ RunCall("m")
    \/ CallsDone("m")
    \/ RunAction("m")
    \/ SwapReactions("m")
    \/ RunReaction("m", IF is_explicit(Head(cur_reactions["m"]).reaction) THEN {}
                         ELSE {"count"})
    \/ RunReactionRaises("m", IF is_explicit(Head(cur_reactions["m"]).reaction) THEN {}
                               ELSE {"count"})
    \/ IterEnd("m")

SpecLoop == InitLoop /\ [][NextLoop]_vars

(***************************************************************************)
(* The specification of property reads: the run of a reaction is taken in  *)
(* steps, so that reads of either thread fall into it, and the action      *)
(* increment and an explicit reaction read properties of their own.        *)
(***************************************************************************)
\* iter from the entry's unpacking to the call of the reaction: the events
\* are filtered, and _prop_access is emptied when the reaction is called
reaction_begin(st, s, entry) ==
    LET r      == entry.reaction
        events == IF is_explicit(r) THEN filter_events(entry.events) ELSE entry.events
    IN  IF Len(events) > 0 \/ ~is_explicit(r)
        THEN [st EXCEPT !.prop_access[s] = {},
                        !.invoked[s] = Append(@, [reaction |-> r, events |-> events,
                                                  reads |-> {}]),
                        !.pc[s] = "running"]
        ELSE [st EXCEPT !.prop_access[s] = {}, !.cur_reactions[s] = Tail(@)]

\* iter after the call of the reaction: an implicit reaction is reconnected
\* to what _prop_access holds if a container was changed
reaction_end(st, s, entry) ==
    LET r   == entry.reaction
        st1 == IF ~is_explicit(r) /\ st.cur_reaction_ids[s][r]
               THEN update_implicit_connections(st, r, s, st.prop_access[s])
               ELSE st
    IN  [st1 EXCEPT !.prop_access[s] = {}, !.cur_reactions[s] = Tail(@),
                    !.pc[s] = "reactions"]

ReactionBegin(s) ==
    /\ pc[s] = "reactions"
    /\ cur_reactions[s] # <<>>
    /\ Commit(reaction_begin(St, s, Head(cur_reactions[s])))
    /\ UNCHANGED trace

ReactionEnd(s) ==
    /\ pc[s] = "running"
    /\ Commit(reaction_end(St, s, Head(cur_reactions[s])))
    /\ UNCHANGED trace

\* Property.__get__ of property p of c, on thread tid; a read by the loop's
\* thread while a reaction runs is a read of that reaction
Property_get(c, p, tid) ==
    /\ Record("read", c, p, tid)
    /\ Commit(IF pc[LoopOf(c)] = "running" /\ tid = MainThread
              THEN [register_prop_access(St, LoopOf(c), c, p, tid)
                       EXCEPT !.invoked[LoopOf(c)][Len(invoked[LoopOf(c)])].reads = @ \cup {p}]
              ELSE register_prop_access(St, LoopOf(c), c, p, tid))

InitReads ==
    /\ Start(Component_init(Blank([c \in {"m"} |-> "plain"], [c \in {"m"} |-> FALSE]),
                            "m", NoValues, FALSE, FALSE))
    /\ budget = MaxReadOps

NextReads ==
    \/ CallAction("m", "increment", NoneV)
    \/ Connect("m", "count", "a", "r1")
    \/ \E p \in {"count", "foo"}, tid \in Threads : Property_get("m", p, tid)
    \/ IterBegin("m")
    \/ RunCall("m")
    \/ CallsDone("m")
    \/ RunAction("m")
    \/ SwapReactions("m")
    \/ ReactionBegin("m")
    \/ ReactionEnd("m")
    \/ IterEnd("m")

SpecReads == InitReads /\ [][NextReads]_vars

(***************************************************************************)
(* The specification of two native threads: each thread calls iter, one    *)
(* statement or one block under the lock at a time, and each queues        *)
(* callbacks, actions and events of bar, to which r1 is subscribed. What   *)
(* an entry's body does is left out: the entry is noted in ran.            *)
(***************************************************************************)
\* the functions that user code queues, by the number of the call
FuncNames == <<"f1", "f2", "f3", "f4", "f5">>

\* iter, lines 57-60: the comparison of the thread's id with _last_thread_id
iter_check(st, s, t) ==
    IF st.last_thread_id[s] # 0 /\ st.last_thread_id[s] # t
    THEN [st EXCEPT !.threads[t].exc = "RuntimeError"]
    ELSE [st EXCEPT !.threads[t].exc = "", !.threads[t].pc = "checked"]

\* iter, line 61
iter_enter(st, s, t) ==
    [st EXCEPT !.last_thread_id[s] = t, !.threads[t].pc = "entered"]

\* a swap that leaves the entries in the loop's queues
iter_swap_keeps(st, s, t) ==
    [st EXCEPT !.scheduled_update[s] = FALSE,
               !.threads[t].calls = st.pending_calls[s],
               !.threads[t].actions = st.pending_actions[s],
               !.threads[t].pc = "calls"]

\* iter, lines 64-69, under the lock
iter_swap(st, s, t) ==
    [st EXCEPT !.scheduled_update[s] = FALSE,
               !.threads[t].calls = st.pending_calls[s],
               !.pending_calls[s] = <<>>,
               !.threads[t].actions = st.pending_actions[s],
               !.pending_actions[s] = <<>>,
               !.threads[t].pc = "calls"]

\* iter, lines 72-85: the next callback or action is run, callbacks first
iter_run(st, s, t) ==
    IF st.threads[t].pc = "calls"
    THEN IF st.threads[t].calls = <<>> THEN [st EXCEPT !.threads[t].pc = "actions"]
         ELSE [st EXCEPT !.threads[t].ran = Append(@, Head(st.threads[t].calls).func),
                         !.threads[t].calls = Tail(@)]
    ELSE [st EXCEPT !.threads[t].ran = Append(@, Head(st.threads[t].actions).func),
                    !.threads[t].actions = Tail(@)]

\* iter, lines 88-92, under the lock
iter_swap_reactions(st, s, t) ==
    [st EXCEPT !.threads[t].reactions = st.pending_reactions[s],
               !.pending_reactions[s] = <<>>,
               !.pending_reaction_ids[s] = NoIds,
               !.threads[t].pc = "reactions"]

\* iter, lines 95-117: the next reaction is called with its events
iter_run_reaction(st, s, t) ==
    [st EXCEPT !.threads[t].ran =
                   @ \o [k \in 1..Len(Head(st.threads[t].reactions).events) |->
                            Head(st.threads[t].reactions).events[k].type],
               !.threads[t].reactions = Tail(@)]

\* thread t calls loop.iter()
ThreadIter(s, t) ==
    /\ threads[t].pc = "idle"
    /\ Record("iter", s, "", t)
    /\ Commit(iter_check(St, s, t))

ThreadEnter(s, t) ==
    /\ threads[t].pc = "checked"
    /\ Commit(iter_enter(St, s, t))
    /\ UNCHANGED trace

ThreadSwap(s, t) ==
    /\ threads[t].pc = "entered"
    /\ Commit(iter_swap(St, s, t))
    /\ UNCHANGED trace

ThreadRun(s, t) ==
    /\ \/ threads[t].pc = "calls"
       \/ threads[t].pc = "actions" /\ threads[t].actions # <<>>
    /\ Commit(iter_run(St, s, t))
    /\ UNCHANGED trace

ThreadSwapReactions(s, t) ==
    /\ threads[t].pc = "actions"
    /\ threads[t].actions = <<>>
    /\ Commit(iter_swap_reactions(St, s, t))
    /\ UNCHANGED trace

ThreadRunReaction(s, t) ==
    /\ threads[t].pc = "reactions"
    /\ threads[t].reactions # <<>>
    /\ Commit(iter_run_reaction(St, s, t))
    /\ UNCHANGED trace

ThreadIterEnd(s, t) ==
    /\ threads[t].pc = "reactions"
    /\ threads[t].reactions = <<>>
    /\ Commit([St EXCEPT !.threads[t].pc = "idle"])
    /\ UNCHANGED trace

\* thread t calls loop.call_later(f), invokes an action of c, or emits bar
ThreadCallsLater(s, t) ==
    /\ Record("call_later", s, FuncNames[Len(trace) + 1], t)
    /\ Commit(call_later(St, s, [func |-> FuncNames[Len(trace) + 1], ob |-> s]))

ThreadCallsAction(c, t) ==
    /\ Record("action", c, FuncNames[Len(trace) + 1], t)
    /\ Commit(add_action_invokation(St, LoopOf(c), c, FuncNames[Len(trace) + 1], NoneV))

ThreadEmits(c, t) ==
    /\ Record("emit", c, "bar", t)
    /\ Commit(emit(St, c, "bar", NoEvent))

InitThreads ==
    /\ Start(register_reaction(
                 Component_init(Blank([c \in {"m"} |-> "plain"], [c \in {"m"} |-> FALSE]),
                                "m", NoValues, FALSE, FALSE),
                 "m", "bar", "a", "r1"))
    /\ budget = MaxThreadOps

NextThreads ==
    \E t \in Threads :
        \/ ThreadIter("m", t)
        \/ ThreadEnter("m", t)
        \/ ThreadSwap("m", t)
        \/ ThreadRun("m", t)
        \/ ThreadSwapReactions("m", t)
        \/ ThreadRunReaction("m", t)
        \/ ThreadIterEnd("m", t)
        \/ ThreadCallsLater("m", t)
        \/ ThreadCallsAction("m", t)
        \/ ThreadEmits("m", t)

SpecThreads == InitThreads /\ [][NextThreads]_vars

(***************************************************************************)
(* The specification of a loop and its host: user code integrates the loop *)
(* with a host that runs, some time later, each function it is given; user *)
(* code and the running callbacks call call_later. The component m was     *)
(* made before, so two callbacks are waiting when the host is given.       *)
(***************************************************************************)
\* Loop.integrate(call_later_func): the host is given iter at once
integrate(st, s) ==
    [st EXCEPT !.calllaterfunc[s] = "host", !.host_calls[s] = @ + 1]

Integrate(s) ==
    /\ Idle(s)
    /\ calllaterfunc[s] = "none"
    /\ Record("integrate", s, "", "")
    /\ Commit(integrate(St, s))

\* the host runs a call of iter that it was given
HostRuns(s) ==
    /\ pc[s] = "idle"
    /\ host_calls[s] > 0
    /\ Commit([iter_begin(St, s) EXCEPT !.host_calls[s] = @ - 1])
    /\ UNCHANGED trace

\* the steps of a running iteration
IterSteps(s) ==
    \/ RunCall(s)
    \/ CallsDone(s)
    \/ SwapReactions(s)
    \/ RunReaction(s, {})
    \/ IterEnd(s)

InitHost ==
    /\ Start(Component_init(Blank([c \in {"m"} |-> "plain"], [c \in {"m"} |-> FALSE]),
                            "m", NoValues, FALSE, FALSE))
    /\ budget = MaxHostOps

NextHost ==
    \/ Integrate("m")
    \/ CallLater("m", FuncNames[Len(trace) + 1])
    \/ BodyCallsLater("m", FuncNames[Len(trace) + 1])
    \/ IterBegin("m")
    \/ HostRuns("m")
    \/ IterSteps("m")

\* the host runs what it is given, and an iteration that began goes on
SpecHost ==
    /\ InitHost
    /\ [][NextHost]_vars
    /\ WF_vars(HostRuns("m"))
    /\ WF_vars(IterSteps("m"))

(***************************************************************************)
(* The specification of the subscriber lists: user code registers and      *)
(* disconnects reactions on count under labels of which one has a          *)
(* character that sorts before the '-' of the sort key, registers them on  *)
(* bar, emits bar, sets count and runs the loop.                           *)
(***************************************************************************)
HandlerLabels == {"a", "a+", "b"}

InitHandlers ==
    /\ Start(Component_init(Blank([c \in {"m"} |-> "plain"], [c \in {"m"} |-> FALSE]),
                            "m", NoValues, FALSE, FALSE))
    /\ budget = MaxHandlerOps

NextHandlers ==
    \/ \E l \in HandlerLabels, r \in {"r1", "r2"} : Connect("m", "count", l, r)
    \/ \E r \in {"r1", "r2"} : Connect("m", "bar", "a", r)
    \/ \E l \in HandlerLabels \cup {""}, r \in {"r1", "r2", ""} :
           Disconnect("m", "count", l, r)
    \/ Emit("m", "bar")
    \/ CallAction("m", "set_count", IntV(1))
    \/ IterBegin("m")
    \/ RunCall("m")
    \/ CallsDone("m")
    \/ RunAction("m")
    \/ SwapReactions("m")
    \/ RunReaction("m", {})
    \/ IterEnd("m")

SpecHandlers == InitHandlers /\ [][NextHandlers]_vars

(***************************************************************************)
(* The specification of validation: user code validates a value with a     *)
(* property class and validates the result again, and it calls the         *)
(* setters of the component m with values that it may already hold.        *)
(***************************************************************************)
\* the values given to the validators
ValidateInputs ==
    {IntV(0), IntV(1), FloatV(15), NaNV, BoolV(1), StrV("1"), StrV("nan"), StrV("x"),
     NoneV, ListV(<<1>>), TupleV(<<>>), CompV}

\* cls._validate(v); ret holds the class, the argument and the result
CallValidate(cls, v) ==
    /\ ret.t = "none"
    /\ Commit([St EXCEPT !.ret = [t |-> "validated",
                                  v |-> [cls |-> cls, arg |-> v,
                                         res |-> Property_validate(cls, v)]]])
    /\ UNCHANGED trace

\* cls._validate of the value that cls._validate returned
CallValidateAgain ==
    /\ ret.t = "validated"
    /\ ret.v.res.ok
    /\ Commit([St EXCEPT !.ret = [t |-> "revalidated",
                                  v |-> [cls |-> ret.v.cls, arg |-> ret.v.res.val,
                                         res |-> Property_validate(ret.v.cls,
                                                                   ret.v.res.val)]]])
    /\ UNCHANGED trace

InitValidate ==
    /\ Start(Component_init(Blank([c \in {"m"} |-> "plain"], [c \in {"m"} |-> FALSE]),
                            "m", NoValues, FALSE, FALSE))
    /\ budget = MaxValidateOps

NextValidate ==
    \/ \E cls \in PropTypes, v \in ValidateInputs : CallValidate(cls, v)
    \/ CallValidateAgain
    \/ \E v \in {NaNV, FloatV(15)} : CallAction("m", "set_foo", v)
    \/ \E v \in {IntV(1), StrV("1")} : CallAction("m", "set_count", v)
    \/ IterBegin("m")
    \/ RunCall("m")
    \/ CallsDone("m")
    \/ RunAction("m")
    \/ SwapReactions("m")
    \/ RunReaction("m", {})
    \/ IterEnd("m")

SpecValidate == InitValidate /\ [][NextValidate]_vars

(***************************************************************************)
(* Properties of the mutation pipeline and of the loop.                    *)
(***************************************************************************)
\* the step is a call of the given kind by user code
IsCall(op) == Len(trace') = Len(trace) + 1 /\ trace'[Len(trace')].op = op

\* the step is iter running the queued action at the head of its queue
IsRunAction(s) ==
    pc[s] = "actions" /\ cur_actions[s] # <<>> /\ cur_actions'[s] = Tail(cur_actions[s])

LastCall == trace[Len(trace)]

\* C1: a call of the mutator made while the loop is not processing actions
\* fails with AttributeError, stores nothing and emits no event.
C1_MutateOutsideActionFails ==
    [][(IsCall("mutate") /\ pc["m"] # "actions")
          => /\ err' = "AttributeError"
             /\ value' = value
             /\ emitted' = emitted
             /\ captured' = captured
             /\ pending_reactions' = pending_reactions]_vars

\* C1 witness: a mutator call at rest has just failed
W1_MutateFailedAtIdle ==
    /\ trace # <<>>
    /\ LastCall.op = "mutate"
    /\ pc["m"] = "idle"
    /\ err = "AttributeError"
    /\ value["m"]["count"] # LastCall.b

\* C2 (as claimed): a set inside an action compares the validated value with
\* the stored one; when they are equal nothing is stored and nothing emitted,
\* otherwise the validated value is stored and one event old -> new emitted.
C2_SetComparesValidatedValue ==
    [][\A s \in Comps :
          (/\ IsRunAction(s)
           /\ Head(cur_actions[s]).func = "set_count"
           /\ Validate("count", Head(cur_actions[s]).args).ok)
          => LET v   == Validate("count", Head(cur_actions[s]).args).val
                 old == value[s]["count"]
             IN  IF old = v
                 THEN value' = value /\ emitted' = emitted
                 ELSE /\ value'[s]["count"] = v
                      /\ emitted'[s] = Append(emitted[s], SetEvent(s, "count", old, v))]_vars

\* the calls of the Counter scenario: increment() twice, then one iteration
CounterScenario ==
    /\ Len(trace) = 3
    /\ trace[1].op = "action" /\ trace[1].a = "increment"
    /\ trace[2].op = "action" /\ trace[2].a = "increment"
    /\ trace[3].op = "iter"

CountEvents(c) == SelectSeq(emitted[c], LAMBDA ev : ev.type = "count")

\* C3: after two calls of increment() and one iteration count is 2 and the
\* two actions emitted two count events, 0 -> 1 and 1 -> 2.
C3_CounterTwoIncrements ==
    (CounterScenario /\ pc["m"] \in {"reactions", "idle"})
        => /\ value["m"]["count"] = IntV(2)
           /\ CountEvents("m") = <<SetEvent("m", "count", IntV(0), IntV(1)),
                                   SetEvent("m", "count", IntV(1), IntV(2))>>

\* C3 witness: the scenario has run to its end
W3_CounterScenarioDone ==
    CounterScenario /\ pc["m"] = "idle" /\ value["m"]["count"] = IntV(2)

\* the Counter scenario with a reaction r1 subscribed to count before the
\* iteration
ReactionScenario ==
    /\ Len(trace) = 4
    /\ trace[4].op = "iter"
    /\ Cardinality({i \in 1..3 : trace[i].op = "action" /\ trace[i].a = "increment"}) = 2
    /\ \E i \in 1..3 : /\ trace[i].op = "connect" /\ trace[i].a = "count"
                       /\ trace[i].b[2] = "r1"

InvocationsOf(s, r) == SelectSeq(invoked[s], LAMBDA x : x.reaction = r)

\* C4 (as claimed): the reaction is invoked exactly two times.
C4_ReactionInvokedTwice ==
    (ReactionScenario /\ pc["m"] = "idle") => Len(InvocationsOf("m", "r1")) = 2

\* C4 (amended): the reaction is invoked exactly once, with a batch that is
\* the initial count event followed by the two changes 0 -> 1 and 1 -> 2.
C4_ReactionInvokedOnceWithBoth ==
    (ReactionScenario /\ pc["m"] = "idle")
        => /\ Len(InvocationsOf("m", "r1")) = 1
           /\ InvocationsOf("m", "r1")[1].events =
                  <<SetEvent("m", "count", IntV(0), IntV(0)),
                    SetEvent("m", "count", IntV(0), IntV(1)),
                    SetEvent("m", "count", IntV(1), IntV(2))>>

\* C4 witness: the scenario has run and the reaction was invoked
W4_ReactionScenarioDone ==
    ReactionScenario /\ pc["m"] = "idle" /\ Len(InvocationsOf("m", "r1")) > 0

\* the calls are set_count(v) and one iteration
SetScenario(v) ==
    /\ Len(trace) = 2
    /\ trace[1].op = "action" /\ trace[1].a = "set_count" /\ trace[1].b = v
    /\ trace[2].op = "iter"

\* C5: calling an action only queues the invocation and changes no property;
\* properties change in the action phase of an iteration only, and after the
\* iteration that follows set_count(v) count is the validated v.
C5_ActionsAreDeferred ==
    /\ [][/\ IsCall("action")
             => /\ value' = value
                /\ emitted' = emitted
                /\ pending_actions'["m"] =
                       Append(pending_actions["m"],
                              [ob |-> "m", func |-> trace'[Len(trace')].a,
                               args |-> trace'[Len(trace')].b])
          /\ value' # value => pc["m"] = "actions"]_vars
    /\ [](\A v \in Inputs :
             (SetScenario(v) /\ pc["m"] = "idle" /\ Validate("count", v).ok)
                 => value["m"]["count"] = Validate("count", v).val)

\* C5 witness: set_count(1.5) was called, an iteration ran and count is 1
W5_SetAppliedByIteration ==
    SetScenario(FloatV(15)) /\ pc["m"] = "idle" /\ value["m"]["count"] = IntV(1)

\* reaction r is subscribed to event type of component c under label
\* exactly
SubscribedUnder(c, type, label, r) ==
    /\ \E k \in 1..Len(handlers[c][type]) : handlers[c][type][k] = <<label, r>>
    /\ \A k \in 1..Len(handlers[c][type]) :
           handlers[c][type][k][2] = r => handlers[c][type][k][1] = label

InBatch(x, ev) == \E k \in 1..Len(x.events) : x.events[k] = ev

\* C6 (as claimed): of two reactions subscribed to one event type of a
\* component under the labels a and b, the one labelled a is invoked before
\* the one labelled b for every event that both handle in an iteration.
C6_LabelOrderOfInvocation ==
    \A c \in Comps : \A i, j \in 1..Len(invoked[c]) :
        (i < j /\ invoked[c][i].reaction # invoked[c][j].reaction)
            => \A k \in 1..Len(invoked[c][i].events) :
                   LET ev == invoked[c][i].events[k] IN
                   ~ /\ InBatch(invoked[c][j], ev)
                     /\ SubscribedUnder(c, ev.type, "b", invoked[c][i].reaction)
                     /\ SubscribedUnder(c, ev.type, "a", invoked[c][j].reaction)

LastInvocation(s, r) == InvocationsOf(s, r)[Len(InvocationsOf(s, r))]

\* C7 (as claimed): after every run of an implicit reaction its
\* subscriptions are exactly the properties it read during that run.
C7_ImplicitSubscriptionsAreTheReads ==
    \A c \in Comps : \A r \in Reactions :
        (~is_explicit(r) /\ pc[c] = "idle" /\ Len(InvocationsOf(c, r)) > 0)
            => \A p \in Props :
                   (\E k \in 1..Len(handlers[c][p]) : handlers[c][p][k][2] = r)
                       <=> p \in LastInvocation(c, r).reads

(***************************************************************************)
(* Properties of a local component and its proxy.                          *)
(***************************************************************************)
\* the state of the program, without the record of the calls
ProgVars == <<kind, value, handlers, capturing, captured, disposed, r_disposed,
              connections, pending_calls, pending_actions, pending_reactions,
              pending_reaction_ids, prop_access, scheduled_update, last_thread_id,
              calllaterfunc, host_calls, threads, pc, cur_calls,
              cur_actions, cur_reactions, cur_reaction_ids, has_proxy,
              event_types_at_proxy, status, registered, chan, emitted, invoked,
              logged, js>>

\* the step is a call of the given kind on component c
IsCallOn(op, c) == IsCall(op) /\ trace'[Len(trace')].c = c

NoHandlers(h) == \A t \in EventTypes : h[t] = <<>>

\* dispose() of c forwards the call to the other side
Forwards(c) == kind[c] = "proxy" /\ ~js[c] /\ status[c] > 0

\* C8 (as claimed): a call of dispose that follows a call of dispose on the
\* same component changes neither the state nor the commands sent.
C8_SecondDisposeChangesNothing ==
    [][\A c \in Comps :
          (IsCallOn("dispose", c) /\ trace # <<>>
             /\ LastCall.op = "dispose" /\ LastCall.c = c)
          => UNCHANGED ProgVars]_vars

\* C8 (amended): dispose() disposes a component that is not a proxy, and a
\* call of dispose() that follows a call of dispose() on the same component
\* and finds it disposed changes neither the state nor the commands sent,
\* unless it is a proxy in Python with a live session, whose dispose() only
\* sends one INVOKE(id, 'dispose') per call; _dispose twice is _dispose once
\* for every class; a disposal empties every handler list and disposes the
\* declared reactions, and an event emitted on a component without handlers
\* is queued for no reaction.
C8_DisposeIdempotentWhenNotForwarded ==
    /\ [][\A c \in Comps :
             /\ (IsCallOn("dispose", c) /\ trace # <<>>
                   /\ LastCall.op = "dispose" /\ LastCall.c = c
                   /\ disposed[c] /\ ~Forwards(c))
                    => UNCHANGED ProgVars
             /\ (IsCallOn("dispose", c) /\ kind[c] # "proxy") => disposed'[c]
             /\ (IsCallOn("dispose", c) /\ Forwards(c))
                    => /\ chan' = [chan EXCEPT ![c] = Append(@, Invoke(c, "dispose", <<>>))]
                       /\ UNCHANGED <<disposed, handlers, r_disposed, registered, value>>
             /\ (disposed'[c] /\ ~disposed[c])
                    => /\ NoHandlers(handlers'[c])
                       /\ \A r \in Declared(St, c) : r_disposed'[r]
             /\ (IsCallOn("emit", c) /\ NoHandlers(handlers[c]))
                    => pending_reactions' = pending_reactions]_vars
    /\ [](\A c \in Comps :
             dispose_private(dispose_private(St, c), c) = dispose_private(St, c))

\* C8 witness: dispose() was called twice on the local component, which is
\* disposed, has no handlers and sent one DISPOSE command
W8_LocalDisposedTwice ==
    /\ Len(trace) >= 2
    /\ trace[1].op = "dispose" /\ trace[1].c = "L"
    /\ trace[2].op = "dispose" /\ trace[2].c = "L"
    /\ disposed["L"] /\ NoHandlers(handlers["L"]) /\ r_disposed["r3"]
    /\ Len(SelectSeq(chan["L"], LAMBDA m : m.cmd = "DISPOSE")) = 1

\* C9: the property values of a proxy change only in a step of its loop that
\* runs an _emit_at_proxy action, and a call of _mutate on a proxy fails with
\* RuntimeError, changes no value and emits nothing.
C9_ProxyValuesOnlyByEmitAtProxy ==
    [][\A c \in Comps : kind[c] = "proxy" =>
          /\ value'[c] # value[c]
                 => IsRunAction(c) /\ Head(cur_actions[c]).func = "_emit_at_proxy"
          /\ IsCallOn("mutate", c)
                 => err' = "RuntimeError" /\ value' = value /\ emitted' = emitted]_vars

\* C9 witness: the proxy holds the value that the local component's action
\* has set
W9_ProxyFollowsLocal ==
    /\ kind["P"] = "proxy"
    /\ value["L"]["count"] = IntV(1)
    /\ value["P"]["count"] = IntV(1)
    /\ pc["P"] = "idle"

\* C10: calling an action on a proxy sends one INVOKE(id, name, args) command
\* and does nothing else: no value changes, no event is emitted and nothing
\* is queued on the proxy's loop; as long as no loop has run an iteration
\* after the call, the proxy keeps its values.
C10_ProxyActionOnlySendsInvoke ==
    /\ [][\A c \in Comps : (kind[c] = "proxy" /\ IsCallOn("action", c))
             => /\ chan' = [chan EXCEPT ![c] = Append(@, Invoke(c, trace'[Len(trace')].a,
                                                                  trace'[Len(trace')].b))]
                /\ UNCHANGED <<value, emitted, captured, pending_actions,
                               pending_reactions, pending_calls, handlers>>]_vars
    /\ []((Len(trace) = 1 /\ trace[1].op = "action" /\ trace[1].c = "P")
             => value["P"] = [p \in Props |-> PropDefault(p)])

\* C10 witness: set_count(1) was called on the proxy, the local component ran
\* it and the proxy has applied the echo
W10_ProxyActionEchoed ==
    /\ Len(trace) = 3
    /\ trace[1].op = "action" /\ trace[1].c = "P"
    /\ trace[1].a = "set_count" /\ trace[1].b = IntV(1)
    /\ trace[2].op = "iter" /\ trace[2].c = "L"
    /\ trace[3].op = "iter" /\ trace[3].c = "P"
    /\ value["P"]["count"] = IntV(1)
    /\ pc["P"] = "idle"

\* the step emits one event on component c and nothing fails in it
EmitsOne(c) ==
    /\ Len(emitted'[c]) = Len(emitted[c]) + 1
    /\ err' = ""
    /\ logged' = logged

LastOf(q) == q[Len(q)]

InSeq(x, q) == \E i \in 1..Len(q) : q[i] = x

\* the proxy of c is to be told of events of the type
ForwardedType(c, type) ==
    /\ has_proxy[c]
    /\ status[c] > 0
    /\ type \in ProxyProperties \/ InSeq(type, event_types_at_proxy[c])

IsEmitAtProxy(x) == x.func = "_emit_at_proxy"

\* no _emit_at_proxy command of L is in the session, and P's loop holds no
\* _emit_at_proxy invocation
EmitsDelivered ==
    /\ \A i \in 1..Len(chan["L"]) :
           ~(chan["L"][i].cmd = "INVOKE" /\ chan["L"][i].name = "_emit_at_proxy")
    /\ \A i \in 1..Len(pending_actions["P"]) : ~IsEmitAtProxy(pending_actions["P"][i])
    /\ \A i \in 1..Len(cur_actions["P"]) : ~IsEmitAtProxy(cur_actions["P"][i])

LiveProxy ==
    /\ status["L"] > 0 /\ status["P"] > 0
    /\ has_proxy["L"] /\ ~disposed["L"] /\ ~disposed["P"]

\* C12: with a live proxy and an active session, after any sequence of set,
\* insert, remove and replace mutations on the local side, once every
\* _emit_at_proxy command is delivered and run by the proxy's loop, every
\* property of the proxy has the value of the local component's property.
C12_ProxyValuesConverge ==
    (LiveProxy /\ EmitsDelivered) => \A p \in ProxyProperties : value["P"][p] = value["L"][p]

\* the three array mutations and a set have reached the proxy
W12_ListMirrored ==
    /\ LiveProxy /\ EmitsDelivered
    /\ {trace[i].b.mutation : i \in {j \in 1..Len(trace) : trace[j].a = "mutate_eggs"}}
           = {"insert", "remove", "replace"}
    /\ pending_actions["L"] = <<>> /\ cur_actions["L"] = <<>>
    /\ value["P"]["eggs"] = ListV(<<5>>)
DisposeCommand(c) == [cmd |-> "DISPOSE", id |-> c]

\* a step in which c's _dispose runs: dispose() is called on it, or the
\* session runs it on a command
RunsDispose(c) == IsCallOn("dispose", c) \/ (~disposed[c] /\ disposed'[c])

\* C13: disposing a local component that is not yet disposed, with an active
\* session, sends exactly one DISPOSE(id) command whether or not it has a
\* proxy, unregisters it and sets has_proxy to false; disposing it again
\* sends no command.
C13_LocalDisposeSendsOneDispose ==
    [][\A c \in Comps : (kind[c] = "local" /\ RunsDispose(c)) =>
          /\ disposed'[c] /\ ~has_proxy'[c] /\ ~registered'[c]
          /\ chan'[c] = IF ~disposed[c] /\ status[c] > 0
                        THEN Append(chan[c], DisposeCommand(c))
                        ELSE chan[c]]_vars

\* a local component without a proxy was disposed twice, and one command
\* is in the session
W13_DisposedTwiceWithoutProxy ==
    /\ ~Made("P")
    /\ Len(trace) = 2
    /\ \A i \in 1..2 : trace[i].op = "dispose" /\ trace[i].c = "L"
    /\ chan["L"] = <<DisposeCommand("L")>>
    /\ ~registered["L"] /\ ~has_proxy["L"]
\* the session delivers a DISPOSE command to c in this step
ReceivesDispose(c) ==
    /\ chan[Peer(c)] # <<>>
    /\ Head(chan[Peer(c)]).cmd = "DISPOSE"
    /\ chan'[Peer(c)] = Tail(chan[Peer(c)])

RefOf(c) == [session_id |-> SessionId(c), id |-> CompId(c)]

\* C15: for a component registered in a known session, decoding the
\* reference that encoding it produced returns the same component instance,
\* and the reference consists of exactly the session id and the component id.
C15_DecodeOfEncodeIsTheComponent ==
    [][\A c \in Comps :
          /\ IsCallOn("encode", c) => ret' = [t |-> "ref", v |-> RefOf(c)]
          /\ (/\ IsCallOn("decode", c)
              /\ trace # <<>> /\ LastCall.op = "encode" /\ LastCall.c = c
              /\ ret.t = "ref" /\ trace'[Len(trace')].a = ret.v
              /\ registered[c])
                 => err' = "" /\ ret' = [t |-> "component", v |-> c]]_vars

\* a component was encoded and the reference decoded to the component
W15_RoundTrip ==
    /\ Len(trace) = 2
    /\ trace[1].op = "encode" /\ trace[1].c = "L"
    /\ trace[2].op = "decode" /\ trace[2].c = "L" /\ trace[2].a = RefOf("L")
    /\ ret = [t |-> "component", v |-> "L"]
\* the step decodes, in the process of s, a reference that does not resolve
DecodesUnresolved(s) ==
    /\ IsCallOn("decode", s)
    /\ LET d == trace'[Len(trace')].a
       IN  ~get_session_by_id(d.session_id) \/ get_component_instance(St, s, d.id) = {}

\* C16: decoding a reference whose session id is unknown, or whose component
\* id is not found in a known session, never fails: it returns a stub with
\* the session id and the component id of the reference, and the stub has
\* no properties that can be mutated.
C16_UnresolvedDecodesToStub ==
    [][\A s \in Comps : DecodesUnresolved(s) =>
          LET d == trace'[Len(trace')].a IN
          /\ err' = ""
          /\ ret' = [t |-> "stub", v |-> [session_id |-> d.session_id, id |-> d.id,
                                          properties |-> {}]]]_vars
\* L[:i] and L[i:] of Python
Upto(l, i) == SubSeq(l, 1, IF i < Len(l) THEN i ELSE Len(l))
From(l, i) == SubSeq(l, (IF i < Len(l) THEN i ELSE Len(l)) + 1, Len(l))

\* the test's calls were made in the test's order, and then the loop ran
ListScenario ==
    /\ Len(trace) = Len(TestMutations) + 1
    /\ \A k \in 1..Len(TestMutations) :
           trace[k].op = "action" /\ trace[k].a = "mutate_eggs" /\ trace[k].b = TestMutations[k]
    /\ trace[Len(trace)].op = "iter"

\* the number of actions that the running iteration has run
ActionsRun(s) == Len(TestMutations) - Len(cur_actions[s])

\* C17: for a list property with value L and an index i >= 0, inside an
\* action, insert of X at i yields L[:i] + X + L[i:], replace of X at i
\* yields L[:i] + X + L[i+len(X):] and remove of n at i yields
\* L[:i] + L[i+n:]; and from [] the test's four inserts give
\* [1,2,3,4,5,6,7,8], its replace [1,2,3,44,55,66,7,8] and its remove
\* [1,2,3,7,8].
C17_ArrayMutations ==
    /\ [][(IsRunAction("m") /\ Head(cur_actions["m"]).func = "mutate_eggs") =>
             LET a == Head(cur_actions["m"]).args
                 L == value["m"]["eggs"].v
                 i == a.index
             IN  value'["m"]["eggs"].v =
                     CASE a.mutation = "insert" -> Upto(L, i) \o a.objects.v \o From(L, i)
                       [] a.mutation = "replace" ->
                              Upto(L, i) \o a.objects.v \o From(L, i + Len(a.objects.v))
                       [] a.mutation = "remove" -> Upto(L, i) \o From(L, i + a.objects.v)]_vars
    /\ []((ListScenario /\ pc["m"] = "actions") =>
             /\ ActionsRun("m") = 0 => value["m"]["eggs"] = ListV(<<>>)
             /\ ActionsRun("m") = 4 => value["m"]["eggs"] = ListV(<<1, 2, 3, 4, 5, 6, 7, 8>>)
             /\ ActionsRun("m") = 5 => value["m"]["eggs"] = ListV(<<1, 2, 3, 44, 55, 66, 7, 8>>)
             /\ ActionsRun("m") = 6 => value["m"]["eggs"] = ListV(<<1, 2, 3, 7, 8>>))

\* the test's calls have run
W17_ListScenarioDone ==
    /\ ListScenario
    /\ pc["m"] = "idle"
    /\ value["m"]["eggs"] = ListV(<<1, 2, 3, 7, 8>>)
\* the calls set_count(a), ..., each followed by loop.iter() where given
IsSetCount(k, v) == trace[k].op = "action" /\ trace[k].a = "set_count" /\ trace[k].b = v

\* C18: when a queued set action is given a value that the validator of
\* the property rejects, the loop catches the failure, the property keeps
\* its value and no event is emitted; later valid set actions still take
\* effect, in the same iteration or in a later one.
C18_RejectedSetIsCaught ==
    /\ [][(/\ IsRunAction("m")
           /\ Head(cur_actions["m"]).func = "set_count"
           /\ ~Validate("count", Head(cur_actions["m"]).args).ok) =>
             /\ value' = value /\ emitted' = emitted
             /\ pending_reactions' = pending_reactions
             /\ logged'["m"] = Append(logged["m"],
                                      Validate("count", Head(cur_actions["m"]).args).exc)
             /\ err' = ""]_vars
    /\ []((/\ Len(trace) = 4 /\ IsSetCount(1, NoneV) /\ trace[2].op = "iter"
           /\ IsSetCount(3, IntV(1)) /\ trace[4].op = "iter" /\ pc["m"] = "idle")
              => value["m"]["count"] = IntV(1))
    /\ []((/\ Len(trace) = 3 /\ IsSetCount(1, NoneV) /\ IsSetCount(2, IntV(1))
           /\ trace[3].op = "iter" /\ pc["m"] = "idle")
              => value["m"]["count"] = IntV(1))

\* a rejected set was logged and a valid set of the same iteration applied
W18_ValidSetAfterRejected ==
    /\ Len(trace) = 3 /\ IsSetCount(1, NoneV) /\ IsSetCount(2, IntV(1))
    /\ trace[3].op = "iter" /\ pc["m"] = "idle"
    /\ logged["m"] = <<"TypeError">>
    /\ value["m"]["count"] = IntV(1)
\* the constructor was called with a value for property p and has returned
\* the component
NewWith(p) == trace # <<>> /\ trace[1].op = "new" /\ p \in DOMAIN trace[1].a

\* C19: a property value given as a keyword argument to the constructor is
\* applied in the first loop iteration after construction: right after the
\* constructor returns the property reads as its default, and after one
\* loop iteration it reads as the given value.
C19_GivenValueAppliedByFirstIteration ==
    /\ []((NewWith("foo") /\ Constructed("m") /\ Len(trace) = 1)
              => value["m"]["foo"] = PropDefault("foo"))
    /\ []((/\ NewWith("foo") /\ Constructed("m")
           /\ Len(trace) = 2 /\ trace[2].op = "iter" /\ pc["m"] = "idle")
              => value["m"]["foo"] = trace[1].a["foo"])

\* C20: a constructor keyword value for a property that has no set_<name>
\* action fails with AttributeError; a property that is not settable has no
\* generated setter action.
C20_GivenValueNeedsSetter ==
    /\ []((Len(trace) = 1 /\ \E p \in Props \ Settable : NewWith(p))
              => err = "AttributeError" /\ ~Constructed("m"))
    /\ [][\A p \in Props \ Settable :
              (IsCallOn("action", "m") /\ trace'[Len(trace')].a = p)
                  => err' = "AttributeError" /\ pending_actions' = pending_actions]_vars

\* the property that a setter action sets
SetterProp == [f \in {"set_count", "set_foo", "set_eggs"} |->
                  CASE f = "set_count" -> "count" [] f = "set_foo" -> "foo"
                    [] f = "set_eggs" -> "eggs"]

\* this step runs a queued set action whose argument is the value that the
\* property holds
SetsStoredValue(c) ==
    /\ IsRunAction(c)
    /\ Head(cur_actions[c]).func \in DOMAIN SetterProp
    /\ Head(cur_actions[c]).args = value[c][SetterProp[Head(cur_actions[c]).func]]

\* this step validates again the value that a validator returned
Revalidates == ret.t = "validated" /\ ret'.t = "revalidated"

\* C21 as the specification states it: for every property type and every
\* accepted value, validating the validated value again returns the same
\* value, and a set with the stored value emits no event.
C21_Stated ==
    [][/\ Revalidates => /\ ret'.v.res.ok
                          /\ IsEqual(St, "m", ret.v.res.val, ret'.v.res.val)
       /\ SetsStoredValue("m") => value' = value /\ emitted' = emitted]_vars

\* C21: for every property type and every accepted value whose validated
\* value is not the float NaN, validating the validated value again returns
\* the same value, and a set action given the stored value, when that value
\* is not NaN, stores nothing and emits no event.
C21_ValidationIdempotent ==
    [][/\ (Revalidates /\ ret.v.res.val # NaNV)
          => /\ ret'.v.res.ok
             /\ IsEqual(St, "m", ret.v.res.val, ret'.v.res.val)
       /\ (SetsStoredValue("m") /\ Head(cur_actions["m"]).args # NaNV)
          => value' = value /\ emitted' = emitted]_vars

\* a value was validated twice as an IntProp value, giving 1 both times, and
\* foo was set twice to 1.5 in one iteration with one event
W21_SetTwiceAndRevalidated ==
    /\ ret.t = "revalidated" /\ ret.v.cls = "IntProp" /\ ret.v.res = Ok(IntV(1))
    /\ Len(trace) = 3 /\ trace[1].a = "set_foo" /\ trace[1].b = FloatV(15)
    /\ trace[2].a = "set_foo" /\ trace[2].b = FloatV(15) /\ trace[3].op = "iter"
    /\ pc["m"] = "reactions"
    /\ value["m"]["foo"] = FloatV(15)
    /\ Len(emitted["m"]) = 1

\* steps of iter
IsIterBegin(s) == pc[s] = "idle" /\ pc'[s] = "calls"

IsRunCall(s) == pc[s] = "calls" /\ cur_calls[s] # <<>> /\ cur_calls'[s] = Tail(cur_calls[s])

IsSwapReactions(s) == pc[s] = "actions" /\ pc'[s] = "reactions"

IsRunReaction(s) ==
    pc[s] = "reactions" /\ cur_reactions[s] # <<>> /\ cur_reactions'[s] = Tail(cur_reactions[s])

IsIterEnd(s) == pc[s] = "reactions" /\ pc'[s] = "idle"

\* the index in trace of the last call of iter, 0 when there is none
LastIter ==
    IF \E k \in 1..Len(trace) : trace[k].op = "iter"
    THEN CHOOSE k \in 1..Len(trace) :
             trace[k].op = "iter" /\ \A j \in (k + 1)..Len(trace) : trace[j].op # "iter"
    ELSE 0

\* the calls of kind op recorded after index k
CallsAfter(k, op) == SelectSeq(SubSeq(trace, k + 1, Len(trace)), LAMBDA x : x.op = op)

\* the queue entries that recorded calls of actions make
AsActions(calls) ==
    [k \in 1..Len(calls) |-> [ob |-> calls[k].c, func |-> calls[k].a, args |-> calls[k].b]]

\* the queue entries that recorded calls of call_later make
AsCalls(calls) == [k \in 1..Len(calls) |-> [func |-> calls[k].a, ob |-> calls[k].c]]

\* C22: within one iteration the callbacks swapped out at its start run
\* before the actions swapped out at its start, and those run before the
\* reaction entries queued up to the end of the action phase; callbacks and
\* actions queued while the iteration runs stay in the pending queues, and
\* reaction events queued during the reaction phase stay in the pending
\* reaction queue, until a later iteration swaps them out.
C22_PhasesInOrder ==
    /\ [](pc["m"] # "idle" =>
            /\ pending_actions["m"] = AsActions(CallsAfter(LastIter, "action"))
            /\ pending_calls["m"] = AsCalls(CallsAfter(LastIter, "call_later")))
    /\ [][/\ IsIterBegin("m") => /\ cur_calls'["m"] = pending_calls["m"]
                                 /\ cur_actions'["m"] = pending_actions["m"]
                                 /\ pending_calls'["m"] = <<>>
                                 /\ pending_actions'["m"] = <<>>
          /\ IsRunCall("m") => cur_actions' = cur_actions
          /\ IsRunAction("m") => cur_calls["m"] = <<>>
          /\ IsSwapReactions("m") => /\ cur_calls["m"] = <<>> /\ cur_actions["m"] = <<>>
                                     /\ cur_reactions'["m"] = pending_reactions["m"]
                                     /\ pending_reactions'["m"] = <<>>
          /\ IsRunReaction("m") => /\ cur_calls["m"] = <<>> /\ cur_actions["m"] = <<>>
                                   /\ pending_reactions' = pending_reactions
          /\ pc["m"] = "reactions" /\ ~IsRunReaction("m")
                => cur_reactions' = cur_reactions
          /\ pc["m"] \in {"calls", "actions"}
                => invoked' = invoked /\ (~IsSwapReactions("m") => cur_reactions["m"] = <<>>)
          /\ IsIterEnd("m") => /\ cur_calls["m"] = <<>> /\ cur_actions["m"] = <<>>
                               /\ cur_reactions["m"] = <<>>
                               /\ pending_reactions' = pending_reactions]_vars

\* an iteration has run a callback, an action and a reaction, and it ends
\* with an action, a callback and a reaction event queued while it ran
W22_QueuedWhileRunning ==
    /\ pc["m"] = "reactions" /\ cur_reactions["m"] = <<>>
    /\ Len(logged["m"]) > 0
    /\ Len(invoked["m"]) > 0
    /\ pending_actions["m"] # <<>>
    /\ pending_reactions["m"] # <<>>

\* every action called so far, as queue entries in the order of the calls
AllActions == AsActions(CallsAfter(0, "action"))

\* the actions that wait: those of the running iteration, then the pending
WaitingActions(s) == cur_actions[s] \o pending_actions[s]

\* C23: queued actions run in the order in which they were enqueued and one
\* at a time: the waiting actions are always the last of the actions called,
\* in call order, also when a running body enqueued some of them; each step
\* of the action phase runs the body of the first waiting action alone, and
\* no reaction runs before the action phase ends.
C23_ActionsFifo ==
    /\ [](/\ Len(WaitingActions("m")) <= Len(AllActions)
          /\ WaitingActions("m") =
                 SubSeq(AllActions, Len(AllActions) - Len(WaitingActions("m")) + 1,
                        Len(AllActions)))
    /\ [][/\ IsRunAction("m")
             => /\ invoked' = invoked
                /\ value' = Caught(ActionBody(St, Head(cur_actions["m"])), "m").value
                /\ emitted' = Caught(ActionBody(St, Head(cur_actions["m"])), "m").emitted
          /\ (pc["m"] = "actions" /\ cur_actions'["m"] # cur_actions["m"])
             => /\ cur_actions["m"] # <<>>
                /\ cur_actions'["m"] = Tail(cur_actions["m"])
          /\ (pc["m"] # "idle" /\ IsCall("action"))
             => /\ cur_actions' = cur_actions
                /\ value' = value]_vars

\* two queued actions ran in one iteration, the second of them failing, and
\* an action that a running body called waits for the next iteration
W23_TwoRunOneWaits ==
    /\ Len(trace) = 4 /\ IsSetCount(1, IntV(1)) /\ IsSetCount(2, NoneV)
    /\ trace[3].op = "iter" /\ IsSetCount(4, IntV(2))
    /\ pc["m"] = "actions" /\ cur_actions["m"] = <<>>
    /\ value["m"]["count"] = IntV(1)
    /\ logged["m"] = <<"TypeError">>
    /\ pending_actions["m"] = <<[ob |-> "m", func |-> "set_count", args |-> IntV(2)]>>

\* the entries of reaction r in a queue of reaction entries
EntriesOf(q, r) == SelectSeq(q, LAMBDA e : e.reaction = r)

\* the number of iterations begun so far
Iterations == Len(CallsAfter(0, "iter"))

\* count changed in the iteration that has just run
CountChanged == \E k \in 1..Len(emitted["m"]) :
                    /\ emitted["m"][k].type = "count"
                    /\ emitted["m"][k].old_value # emitted["m"][k].new_value

\* C24: the pending-reaction queue holds at most one entry for an implicit
\* reaction; the implicit reaction of m reads count whenever it runs, so
\* from the second iteration on it watches count: it is invoked exactly
\* once in an iteration in which count changed, and it is not invoked in an
\* iteration in which no property changed.
C24_ImplicitInvokedOncePerChange ==
    /\ Len(EntriesOf(pending_reactions["m"], "r3")) <= 1
    /\ (pc["m"] = "idle" /\ Iterations >= 2 /\ CountChanged)
           => Len(InvocationsOf("m", "r3")) = 1
    /\ (pc["m"] = "idle" /\ Iterations >= 2 /\ emitted["m"] = <<>>)
           => Len(InvocationsOf("m", "r3")) = 0

\* the event that emit('bar') makes on m
BarEvent == [NoEvent EXCEPT !.type = "bar", !.source = "m"]

\* C25: when an event is enqueued for an explicit reaction whose entry is
\* the last of the queue, the enqueue succeeds and the event joins that
\* entry, also when it differs in type from the events that the entry
\* holds; when the last entry is of another reaction and holds a different
\* event, the event starts a new entry. (Stated for emit('bar') with one
\* reaction subscribed to bar.)
C25_ContiguousEventsShareAnEntry ==
    [][(IsCallOn("emit", "m") /\ Len(handlers["m"]["bar"]) = 1
            /\ pending_reactions["m"] # <<>>)
         => LET r == handlers["m"]["bar"][1][2]
                q == pending_reactions["m"]
                last == q[Len(q)]
            IN  /\ last.reaction = r
                    => /\ logged' = logged
                       /\ Len(pending_reactions'["m"]) = Len(q)
                       /\ pending_reactions'["m"][Len(q)].events = Append(last.events, BarEvent)
                /\ (last.reaction # r /\ ~SameSourceType(last.rep, BarEvent))
                    => /\ logged' = logged
                       /\ pending_reactions'["m"]
                              = Append(q, [reaction |-> r, rep |-> BarEvent,
                                           events |-> <<BarEvent>>])]_vars

RECURSIVE QueuedFor(_, _)
\* the events that the entries of reaction r in queue q hold, in queue order
QueuedFor(q, r) ==
    IF q = <<>> THEN <<>>
    ELSE (IF Head(q).reaction = r THEN Head(q).events ELSE <<>>) \o QueuedFor(Tail(q), r)

\* the reactions subscribed to an event type of m
SubscribedTo(type) == {handlers["m"][type][k][2] : k \in 1..Len(handlers["m"][type])}

\* entry i of the queue took the event that this step enqueued
TookEvent(i) ==
    /\ i <= Len(pending_reactions'["m"])
    /\ Len(pending_reactions'["m"][i].events) > Len(pending_reactions["m"][i].events)

\* C26: the events queued for an explicit reaction are the events
\* dispatched to it, each once and in the order of emission: emit('bar')
\* appends its event to the queued events of every reaction subscribed to
\* bar and leaves those of the others alone, an invocation hands the
\* reaction the events of its entry, and an event never joins an entry that
\* lies before an entry holding an (earlier) event of a different type.
C26_EventsInOrder ==
    [][/\ IsCallOn("emit", "m")
          => \A r \in {"r1", "r2"} :
                 QueuedFor(pending_reactions'["m"], r)
                     = IF r \in SubscribedTo("bar")
                       THEN Append(QueuedFor(pending_reactions["m"], r), BarEvent)
                       ELSE QueuedFor(pending_reactions["m"], r)
       /\ (IsRunReaction("m") /\ is_explicit(Head(cur_reactions["m"]).reaction)
               /\ Head(cur_reactions["m"]).events # <<>>)
          => invoked'["m"] = Append(invoked["m"],
                                    [reaction |-> Head(cur_reactions["m"]).reaction,
                                     events |-> Head(cur_reactions["m"]).events,
                                     reads |-> {}])
       /\ \A i \in 1..Len(pending_reactions["m"]) :
              TookEvent(i)
                  => LET evs == pending_reactions'["m"][i].events
                         ev == evs[Len(evs)]
                     IN  \A j \in (i + 1)..Len(pending_reactions["m"]) :
                             \A k \in 1..Len(pending_reactions["m"][j].events) :
                                 pending_reactions["m"][j].events[k].type = ev.type]_vars

\* this step of iter ran a queue entry whose body raised
RaisedInCall(s) == IsRunCall(s) /\ Head(cur_calls[s]).func = "fail"

RaisedInAction(s) ==
    /\ IsRunAction(s)
    /\ Head(cur_actions[s]).func = "set_count"
    /\ ~Validate("count", Head(cur_actions[s]).args).ok

RaisedInReaction(s) == IsRunReaction(s) /\ logged'[s] # logged[s]

\* C27: an exception raised while iter processes a queued callback, action
\* or reaction entry is logged by iter and goes no further: the iteration
\* stays in its phase, the entries after the failing one are still waiting
\* to be run, no exception is in flight while the iteration runs, and the
\* iteration ends only when every entry it swapped out has been run.
C27_ExceptionsAreCaught ==
    /\ [](pc["m"] # "idle" => err = "")
    /\ [][/\ RaisedInCall("m")
             => /\ logged'["m"] = Append(logged["m"], "Exception")
                /\ cur_calls'["m"] = Tail(cur_calls["m"])
                /\ cur_actions' = cur_actions /\ pending_actions' = pending_actions
                /\ pc' = pc /\ err' = ""
          /\ RaisedInAction("m")
             => /\ logged'["m"] = Append(logged["m"],
                                         Validate("count", Head(cur_actions["m"]).args).exc)
                /\ cur_actions'["m"] = Tail(cur_actions["m"])
                /\ pending_reactions' = pending_reactions
                /\ pc' = pc /\ err' = ""
          /\ RaisedInReaction("m")
             => /\ logged'["m"] = Append(logged["m"], "Exception")
                /\ cur_reactions'["m"] = Tail(cur_reactions["m"])
                /\ Len(invoked'["m"]) = Len(invoked["m"]) + 1
                /\ pc' = pc /\ err' = ""
          /\ IsIterEnd("m")
             => /\ cur_calls["m"] = <<>> /\ cur_actions["m"] = <<>>
                /\ cur_reactions["m"] = <<>> /\ err' = ""]_vars

\* an iteration in which a callback, an action and a reaction raised has
\* ended, and the action queued behind the failing one took effect
W27_ThreeRaisedAndIterEnded ==
    /\ pc["m"] = "idle"
    /\ logged["m"] = <<"Exception", "TypeError", "Exception">>
    /\ Len(invoked["m"]) = 1
    /\ Len(trace) = 4 /\ IsSetCount(2, NoneV) /\ IsSetCount(3, IntV(1))
    /\ value["m"]["count"] = IntV(1)

\* the subscriber list is strictly ascending in the order Less of its pairs
Ascending(reactions, Less(_, _)) ==
    \A i \in 1..(Len(reactions) - 1) : Less(reactions[i], reactions[i + 1])

\* the order of the pairs (label, reaction identity)
PairLess(e1, e2) ==
    \/ StrLess(Code[e1[1]], Code[e2[1]])
    \/ e1[1] = e2[1] /\ StrLess(Code[e1[2]], Code[e2[2]])

\* the order of the strings label + '-' + reaction identity
KeyLess(e1, e2) == StrLess(SortKey(e1[1], e1[2]), SortKey(e2[1], e2[2]))

\* this step registers a reaction that is in the list under the same label
RegistersAgain ==
    /\ IsCallOn("connect", "m")
    /\ \E k \in 1..Len(handlers["m"][trace'[Len(trace')].a]) :
           handlers["m"][trace'[Len(trace')].a][k] = trace'[Len(trace')].b

RegisteredType == trace'[Len(trace')].a

RegisteredReaction == trace'[Len(trace')].b[2]

\* C29: a reaction registered on m before the first iteration has run is
\* queued with every event of its type that m emitted since construction,
\* the initial property events included; once the first iteration has run
\* the capture buffer is empty and stays so, events are captured no more and
\* a registration queues nothing.
C29_CapturedEventsReachNewReaction ==
    /\ [](Iterations >= 1 /\ pc["m"] = "idle"
            => ~capturing["m"] /\ \A t \in EventTypes : captured["m"][t] = <<>>)
    /\ [][/\ (IsCallOn("connect", "m") /\ Iterations = 0)
             => /\ capturing["m"]
                /\ QueuedFor(pending_reactions'["m"], RegisteredReaction)
                       = QueuedFor(pending_reactions["m"], RegisteredReaction)
                             \o captured["m"][RegisteredType]
          /\ (IsCallOn("connect", "m") /\ Iterations >= 1)
             => pending_reactions' = pending_reactions
          /\ (IsCallOn("emit", "m") /\ Iterations = 0)
             => captured'["m"]["bar"] = Append(captured["m"]["bar"], BarEvent)
          /\ ~capturing["m"] => ~capturing'["m"] /\ captured' = captured]_vars

\* C30: once the disposed flag of a component is true it stays true, under
\* every later dispose call, received DISPOSE or INVOKE command, emit and
\* reaction registration.
C30_DisposedStaysTrue ==
    [][\A c \in {"L", "P"} : disposed[c] => disposed'[c]]_vars

\* L was disposed, a reaction was then registered on it and it was disposed
\* again, and P was disposed by the DISPOSE command that it received
W30_DisposedThenUsed ==
    /\ Len(trace) = 3
    /\ trace[1].op = "dispose" /\ trace[1].c = "L"
    /\ trace[2].op = "connect" /\ trace[2].c = "L"
    /\ trace[3].op = "dispose" /\ trace[3].c = "L"
    /\ disposed["L"] /\ disposed["P"]
    /\ chan["L"] = <<>>

(***************************************************************************)
(* Properties of the reads of an implicit reaction.                        *)
(***************************************************************************)
\* the reaction that is running on the loop of m
Running == Head(cur_reactions["m"]).reaction

\* the reads that user code has made on thread tid
ReadsOn(tid) == {k \in 1..Len(trace) : trace[k].op = "read" /\ trace[k].b = tid}

\* C31: while an implicit reaction runs, and so when iter computes its
\* dependencies after the run, _prop_access holds exactly the properties
\* that the loop's thread read during that run: not those read by an
\* action, a callback or another reaction of the iteration, nor those read
\* by another thread.
C31_DependenciesAreTheLoopThreadReads ==
    /\ []((pc["m"] = "running" /\ ~is_explicit(Running))
           => prop_access["m"] = {<<"m", p>> : p \in invoked["m"][Len(invoked["m"])].reads})
    /\ [][(pc["m"] = "running" /\ pc'["m"] = "reactions" /\ ~is_explicit(Running))
              => connections'["r3"] \in {connections["r3"], prop_access["m"]}]_vars

\* the implicit reaction of m runs after increment read count in the same
\* iteration; the other thread has read count during the run, and the
\* reaction itself has read foo only
W31_ReadFooWhileOtherThreadReadCount ==
    /\ pc["m"] = "running" /\ ~is_explicit(Running)
    /\ Len(trace) = 4
    /\ trace[1].op = "action" /\ trace[1].a = "increment"
    /\ trace[2].op = "iter"
    /\ trace[3].op = "read" /\ trace[3].a = "count" /\ trace[3].b = 2
    /\ trace[4].op = "read" /\ trace[4].a = "foo" /\ trace[4].b = MainThread
    /\ value["m"]["count"] = IntV(1)
    /\ prop_access["m"] = {<<"m", "foo">>}

(***************************************************************************)
(* Properties of two native threads on one loop.                           *)
(***************************************************************************)
\* thread t is inside iter and has swapped out the loop's queues
Draining(t) == threads[t].pc \in {"calls", "actions", "reactions"}

\* thread t is inside iter
InsideIter(t) == threads[t].pc # "idle"

\* thread t calls iter in this step
CallsIter(t) == IsCall("iter") /\ trace'[Len(trace')].b = t

\* C32 (as claimed): two threads never drain the loop's queues at the same
\* time, and a call of iter by a thread while the other thread is inside
\* iter fails with RuntimeError and leaves the queues as they are.
C32_OneThreadDrains ==
    /\ [](\A t, u \in Threads : (Draining(t) /\ Draining(u)) => t = u)
    /\ [][\A t, u \in Threads : (t # u /\ InsideIter(u) /\ CallsIter(t))
              => /\ threads'[t].exc = "RuntimeError"
                 /\ threads'[t].pc = "idle"
                 /\ UNCHANGED <<pending_calls, pending_actions, pending_reactions>>]_vars


\* how often x occurs in the sequence q
Count(q, x) == Cardinality({i \in 1..Len(q) : q[i] = x})

\* the functions of a queue of callbacks or of actions
FuncsOf(q) == [i \in 1..Len(q) |-> q[i].func]

\* how many events a queue of reaction entries holds for explicit reactions
RECURSIVE EventsIn(_)
EventsIn(q) ==
    IF q = <<>> THEN 0
    ELSE (IF is_explicit(Head(q).reaction) THEN Len(Head(q).events) ELSE 0)
             + EventsIn(Tail(q))

\* how often the function f waits in a queue of the loop or of a thread
Waiting(f) ==
    Count(FuncsOf(pending_calls["m"]), f) + Count(FuncsOf(pending_actions["m"]), f)
        + Count(FuncsOf(threads[1].calls), f) + Count(FuncsOf(threads[1].actions), f)
        + Count(FuncsOf(threads[2].calls), f) + Count(FuncsOf(threads[2].actions), f)

\* how often the function f, or a reaction to an event of type f, has run
Ran(f) == Count(threads[1].ran, f) + Count(threads[2].ran, f)

\* C33: a callback or an action queued by either thread waits in exactly
\* one queue until it is run, and it is run once; every event of bar is
\* either waiting for r1 in one queue or was given to r1 once.
C33_QueuedOnceRunOnce ==
    /\ \A k \in 1..Len(trace) :
           trace[k].op \in {"call_later", "action"}
               => /\ Waiting(trace[k].a) + Ran(trace[k].a) = 1
    /\ Count([k \in 1..Len(trace) |-> trace[k].op], "emit")
           = EventsIn(pending_reactions["m"]) + EventsIn(threads[1].reactions)
                 + EventsIn(threads[2].reactions) + Ran("bar")

\* thread 2 queued f2 and emitted bar while thread 1 was running its first
\* iteration: the event reached r1 in that iteration and f2 ran in the next
W33_QueuedDuringIterationRanInNext ==
    /\ Len(trace) = 4
    /\ trace[1].op = "iter" /\ trace[1].b = 1
    /\ trace[2].op = "call_later" /\ trace[2].b = 2
    /\ trace[3].op = "emit" /\ trace[3].b = 2
    /\ trace[4].op = "iter" /\ trace[4].b = 1
    /\ threads[1].ran = <<"check_not_active", "stop_capturing", "bar", "f2">>
    /\ threads[1].pc = "idle"

(***************************************************************************)
(* Properties of the loop and its host.                                    *)
(***************************************************************************)
\* the functions that were passed to call_later: two by the construction
\* of m and those of user code
Callbacks == {"check_not_active", "stop_capturing"} \cup {FuncNames[k] : k \in 1..5}

\* how often f is in the callback queue or among the callbacks that the
\* running iteration has yet to run
ToRun(f) == Count(FuncsOf(pending_calls["m"]), f) + Count(FuncsOf(cur_calls["m"]), f)

\* f was passed to call_later
Passed(f) == \/ f \in {"check_not_active", "stop_capturing"}
             \/ \E k \in 1..Len(trace) : trace[k].op = "call_later" /\ trace[k].a = f

\* C34: on a loop that was integrated with a host, a callback queue that
\* is not empty has a call of iter waiting at the host; call_later asks
\* the host for one only when it makes the queue non-empty; a function
\* that was passed to call_later is in one queue once, it does not come
\* back after it was run, and it is eventually run.
C34_CallbacksAreRun ==
    /\ []((calllaterfunc["m"] = "host" /\ pending_calls["m"] # <<>>)
              => host_calls["m"] > 0)
    /\ [][IsCall("call_later")
              => host_calls'["m"] <= host_calls["m"]
                                       + (IF pending_calls["m"] = <<>> THEN 1 ELSE 0)]_vars
    /\ [](\A f \in Callbacks : ToRun(f) <= 1)
    /\ [][\A f \in Callbacks : (Passed(f) /\ ToRun(f) = 0) => ToRun(f)' = 0]_vars
    /\ \A f \in Callbacks : (calllaterfunc["m"] = "host" /\ ToRun(f) = 1) ~> (ToRun(f) = 0)
    /\ (calllaterfunc["m"] = "host") ~> ~capturing["m"]

\* the loop was integrated after m was made; the host has run iter, which
\* ran the callbacks of the construction and f2, and f2 called
\* call_later(f3): the host was given iter once more
W34_HostRanAndWasAskedAgain ==
    /\ Len(trace) = 3
    /\ trace[1].op = "integrate"
    /\ trace[2].op = "call_later" /\ trace[2].a = "f2"
    /\ trace[3].op = "call_later" /\ trace[3].a = "f3"
    /\ pc["m"] = "actions"
    /\ ~capturing["m"]
    /\ pending_calls["m"] = <<[func |-> "f3", ob |-> "m"]>>
    /\ host_calls["m"] = 1

(***************************************************************************)
(* Properties of the construction of a proxy.                              *)
(***************************************************************************)
\* user code constructs c in this step, and the constructor returns
IsNew(c) == IsCallOn("new", c) /\ err' = ""

\* the session makes c from a command in this step
IsInstantiated(c) == ~IsCall("new") /\ ~Made(c) /\ Made(c)'

\* the default of every property, validated
Defaults == [p \in Props |-> Validate(p, PropDefault(p)).val]

\* the defaults with the values given, validated, in their place
Applied(given) ==
    [p \in Props |-> IF p \in DOMAIN given THEN Validate(p, given[p]).val ELSE Defaults[p]]

\* the INSTANTIATE commands in a channel
Instantiates(q) == SelectSeq(q, LAMBDA x : x.cmd = "INSTANTIATE")

\* no event of c was emitted, captured or queued for a reaction
NoEvents(c) ==
    /\ emitted[c] = <<>>
    /\ \A t \in EventTypes : captured[c][t] = <<>>
    /\ \A k \in 1..Len(pending_reactions[c]) : pending_reactions[c][k].events = <<>>

\* C35: a proxy that user code constructs sends one INSTANTIATE command
\* with its id, the constructor's arguments, the values given and
\* flx_has_proxy true, and its properties keep their defaults until an
\* _emit_at_proxy action runs; a proxy that the session constructs from a
\* command sends no INSTANTIATE and has the values of the command; neither
\* construction makes an event.
C35_ProxyConstruction ==
    /\ [][IsNew("P")
              => /\ chan'["P"] = <<[cmd |-> "INSTANTIATE", id |-> "P",
                                    args |-> trace'[1].b, props |-> trace'[1].a,
                                    flx_has_proxy |-> TRUE]>>
                 /\ value'["P"] = Defaults
                 /\ NoEvents("P")']_vars
    /\ [][IsInstantiated("P")
              => /\ chan'["P"] = chan["P"]
                 /\ value'["P"] = Applied(Head(chan["L"]).props)
                 /\ NoEvents("P")']_vars
    /\ [][~IsNew("P") => Len(Instantiates(chan'["P"])) <= Len(Instantiates(chan["P"]))]_vars
    /\ [][(Made("P") /\ value'["P"] # value["P"])
              => /\ IsRunAction("P")
                 /\ Head(cur_actions["P"]).func = "_emit_at_proxy"]_vars

\* user code made P with count='1': P kept the default of count until the
\* echo of L, made by the command of P, has run as an action of P
W35_MadeByUserThenEchoed ==
    /\ Len(trace) = 2
    /\ trace[1].op = "new" /\ trace[1].c = "P" /\ trace[1].b = <<1>>
    /\ DOMAIN trace[1].a = {"count"}
    /\ trace[2].op = "iter" /\ trace[2].c = "P"
    /\ value["L"]["count"] = IntV(1)
    /\ value["P"]["count"] = IntV(1)
    /\ has_proxy["L"]
    /\ chan["P"] = <<>>

\* user code made L in JavaScript with count=2 and foo=9, and the
\* serializer encoded it: the session made P in Python with these values
W35_MadeBySession ==
    /\ Len(trace) = 2
    /\ trace[1].op = "new" /\ trace[1].c = "L"
    /\ trace[2].op = "encode"
    /\ js["L"] /\ Made("P")
    /\ value["P"]["count"] = IntV(2) /\ value["P"]["foo"] = IntV(9)
    /\ chan["P"] = <<>> /\ emitted["P"] = <<>>

(***************************************************************************)
(* Properties of the event types at the proxy.                             *)
(***************************************************************************)
\* the event types of c that have a reaction
Subscribed(c) == {t \in EventTypes : handlers[c][t] # <<>>}

\* the elements of a sequence
Elems(q) == {q[k] : k \in 1..Len(q)}

\* a command that reports the event types of the proxy
IsSetEventTypes(x) == x.cmd = "INVOKE" /\ x.name = "_flx_set_event_types_at_proxy"

\* C36: a reaction registered on or disconnected from a proxy that is not
\* disposed and whose session is active makes the proxy send one
\* INVOKE(id, '_flx_set_event_types_at_proxy', [types]), types being the
\* event types that have a reaction after the call, each once; when no
\* such command is on its way, the local component's record holds the
\* event types that have a reaction at the proxy.
C36_EventTypesReported ==
    /\ [][((IsCallOn("connect", "P") \/ IsCallOn("disconnect", "P"))
               /\ ~disposed["P"] /\ status["P"] > 0)
              => /\ Len(chan'["P"]) = Len(chan["P"]) + 1
                 /\ SubSeq(chan'["P"], 1, Len(chan["P"])) = chan["P"]
                 /\ IsSetEventTypes(LastOf(chan'["P"]))
                 /\ LastOf(chan'["P"]).id = "P"
                 /\ Elems(LastOf(chan'["P"]).args) = Subscribed("P")'
                 /\ Len(LastOf(chan'["P"]).args) = Cardinality(Subscribed("P")')]_vars
    /\ []((/\ ~disposed["P"] /\ status["P"] > 0
           /\ registered["L"] /\ ~disposed["L"]
           /\ \A k \in 1..Len(chan["P"]) : ~IsSetEventTypes(chan["P"][k]))
              => Elems(event_types_at_proxy["L"]) = Subscribed("P"))

\* r1 was registered for bar and r2 for count, and bar was disconnected;
\* the three commands have arrived and L knows that count is wanted
W36_RegisteredAndDisconnected ==
    /\ Len(trace) = 3
    /\ trace[1].op = "connect" /\ trace[1].a = "bar"
    /\ trace[2].op = "connect" /\ trace[2].a = "count"
    /\ trace[3].op = "disconnect" /\ trace[3].a = "bar"
    /\ chan["P"] = <<>>
    /\ ~disposed["P"] /\ status["P"] > 0 /\ registered["L"]
    /\ event_types_at_proxy["L"] = <<"count">>
    /\ Subscribed("P") = {"count"}


\* the commands that the step appends to the channel of component c
Sent(c) ==
    IF Len(chan'[c]) > Len(chan[c])
    THEN SubSeq(chan'[c], Len(chan[c]) + 1, Len(chan'[c]))
    ELSE <<>>

IsEmitCommand(x) == x.cmd = "INVOKE" /\ x.name = "_emit_at_proxy"

\* C37: a local component sends INSTANTIATE for its id only while its
\* has_proxy is false, it is not disposed and its session is active, and the
\* sending sets has_proxy; so requests that find has_proxy true send none.
\* No INVOKE _emit_at_proxy is sent before the proxy was requested by an
\* INSTANTIATE or announced by the other side, and the serializer hands out
\* the reference of a Python-side local component only after the request.
C37_InstantiateOnceBeforeUse ==
    [][/\ Instantiates(Sent("L")) # <<>> =>
              /\ ~has_proxy["L"] /\ ~disposed["L"] /\ status["L"] > 0
              /\ has_proxy'["L"]
              /\ Len(Instantiates(Sent("L"))) = 1
       /\ has_proxy["L"] /\ has_proxy'["L"] => Instantiates(Sent("L")) = <<>>
       /\ ~has_proxy["L"] /\ has_proxy'["L"] =>
              Instantiates(Sent("L")) # <<>> \/ IsInstantiated("L")
       /\ \A k \in 1..Len(Sent("L")) :
              IsEmitCommand(Sent("L")[k]) =>
                  \/ has_proxy["L"]
                  \/ IsInstantiated("L") /\ has_proxy'["L"]
                  \/ \E j \in 1..(k - 1) : Sent("L")[j].cmd = "INSTANTIATE"
       /\ (IsCallOn("encode", "L") /\ ~js["L"] /\ status["L"] > 0 /\ ~disposed["L"])
              => ret'.t = "ref" /\ has_proxy'["L"]]_vars

\* user code made the Python-side L, which requested its proxy and sent an
\* event, and serialized it twice: one INSTANTIATE is in the channel
W37_MadeThenSerializedTwice ==
    /\ ~js["L"]
    /\ Len(trace) = 3
    /\ trace[1].op = "new" /\ trace[1].c = "L"
    /\ trace[2].op = "encode" /\ trace[2].c = "L"
    /\ trace[3].op = "encode" /\ trace[3].c = "L"
    /\ has_proxy["L"]
    /\ Len(chan["L"]) > 1
    /\ chan["L"][1].cmd = "INSTANTIATE"
    /\ Len(Instantiates(chan["L"])) = 1
    /\ \E k \in 2..Len(chan["L"]) : IsEmitCommand(chan["L"][k])

\* C38: once a local component is disposed, which is when it sends DISPOSE
\* for its id, it sends no INSTANTIATE and no INVOKE _emit_at_proxy any
\* more, whatever is emitted, serialized or received afterwards; and the
\* disposing step sends neither of them after the DISPOSE.
C38_NothingAfterDispose ==
    [][/\ disposed["L"] =>
              \A k \in 1..Len(Sent("L")) :
                  Sent("L")[k].cmd # "INSTANTIATE" /\ ~IsEmitCommand(Sent("L")[k])
       /\ \A k \in 1..Len(Sent("L")) : \A j \in (k + 1)..Len(Sent("L")) :
              Sent("L")[k].cmd = "DISPOSE" =>
                  Sent("L")[j].cmd # "INSTANTIATE" /\ ~IsEmitCommand(Sent("L")[j])
       /\ (~disposed["L"] /\ disposed'["L"] /\ status["L"] > 0) =>
              \E k \in 1..Len(Sent("L")) : Sent("L")[k].cmd = "DISPOSE"]_vars

\* P subscribed to bar, L was disposed and got what P had sent, and then L
\* emitted bar
W38_EmittedAfterDispose ==
    /\ Len(trace) = 3
    /\ trace[1].op = "connect" /\ trace[1].c = "P"
    /\ trace[2].op = "dispose" /\ trace[2].c = "L"
    /\ trace[3].op = "emit" /\ trace[3].c = "L"
    /\ disposed["L"] /\ status["L"] > 0
    /\ chan["P"] = <<>>
    /\ \E k \in 1..Len(chan["L"]) : chan["L"][k].cmd = "DISPOSE"


\* the step runs the array mutation that is first in the loop's actions
RunsMutation(s) == IsRunAction(s) /\ Head(cur_actions[s]).func = "mutate_eggs"

\* C39: every insert, remove or replace with a non-negative index that runs
\* inside an action emits exactly one event of the property's name that
\* carries the objects, the mutation and the index, also when the list is
\* left equal to what it was; nothing is raised, and the stored value is
\* the mutated list as it is.
C39_ArrayMutationAlwaysEmits ==
    [][(RunsMutation("m") /\ Head(cur_actions["m"]).args.index >= 0) =>
          LET a == Head(cur_actions["m"]).args IN
          /\ Len(emitted'["m"]) = Len(emitted["m"]) + 1
          /\ LastOf(emitted'["m"]).type = "eggs"
          /\ LastOf(emitted'["m"]).mutation = a.mutation
          /\ LastOf(emitted'["m"]).index = a.index
          /\ LastOf(emitted'["m"]).objects.t = a.objects.t
          /\ LastOf(emitted'["m"]).objects.v = a.objects.v
          /\ \A k \in 1..Len(emitted["m"]) :
                 emitted'["m"][k].mutation = emitted["m"][k].mutation
          /\ Len(logged'["m"]) = Len(logged["m"])
          /\ value'["m"]["eggs"] = mutate_array(value["m"]["eggs"], a.mutation, a.index,
                                                 a.objects)]_vars

\* [1, 2] was inserted, and then replacing its first item by 1 and removing
\* no item left the list as it was: three events
W39_EventsOfMutationsWithoutEffect ==
    /\ Len(trace) = 4
    /\ trace[1].op = "action" /\ trace[1].b.mutation = "insert" /\ trace[1].b.index = 0
    /\ trace[1].b.objects = ListV(<<1, 2>>)
    /\ trace[2].op = "action" /\ trace[2].b.mutation = "replace" /\ trace[2].b.index = 0
    /\ trace[3].op = "action" /\ trace[3].b.mutation = "remove" /\ trace[3].b.index = 0
    /\ trace[3].b.objects = IntV(0)
    /\ trace[4].op = "iter"
    /\ pc["m"] = "actions" /\ cur_actions["m"] = <<>>
    /\ value["m"]["eggs"] = ListV(<<1, 2>>)
    /\ Len(emitted["m"]) = 3
    /\ emitted["m"][2].mutation = "replace" /\ emitted["m"][3].mutation = "remove"
    /\ logged["m"] = <<>>

\* C40: an insert, remove or replace with a negative index, the default -1
\* included, fails with IndexError, leaves the value as it is and emits no
\* event.
C40_NegativeIndexFails ==
    [][(RunsMutation("m") /\ Head(cur_actions["m"]).args.index < 0) =>
          /\ logged'["m"] = Append(logged["m"], "IndexError")
          /\ value'["m"]["eggs"] = value["m"]["eggs"]
          /\ Len(emitted'["m"]) = Len(emitted["m"])]_vars

\* [1, 2] was inserted, and a remove at -1 and a replace at -2 failed
W40_NegativeIndexAfterInsert ==
    /\ Len(trace) = 4
    /\ trace[1].op = "action" /\ trace[1].b.mutation = "insert" /\ trace[1].b.index = 0
    /\ trace[1].b.objects = ListV(<<1, 2>>)
    /\ trace[2].op = "action" /\ trace[2].b.mutation = "remove" /\ trace[2].b.index = -1
    /\ trace[3].op = "action" /\ trace[3].b.mutation = "replace" /\ trace[3].b.index = -2
    /\ trace[4].op = "iter"
    /\ pc["m"] = "actions" /\ cur_actions["m"] = <<>>
    /\ value["m"]["eggs"] = ListV(<<1, 2>>)
    /\ Len(emitted["m"]) = 1
    /\ logged["m"] = <<"IndexError", "IndexError">>
====
